---------------------------- MODULE Spec2Model ----------------------------
(***************************************************************************)
(* Portal: motion-triggered video calls between the devices of a group.    *)
(*                                                                         *)
(* Server side                                                             *)
(*   PresenceManager  (server/src/presence-manager.ts)                     *)
(*   SignalingServer  (server/src/signaling-server.ts)                     *)
(*   the devices/groups tables of PortalDatabase (server/src/database.ts)  *)
(* Client side                                                             *)
(*   useWebRTC        (client/src/hooks/useWebRTC.ts)                      *)
(*   LiveKitPortal    (client/src/components/LiveKitPortal.tsx)            *)
(*   useMotionDetection (client/src/hooks/useMotionDetection.ts)           *)
(*                                                                         *)
(* Specifications                                                          *)
(*   SpecPresence  the PresenceManager driven through its public methods   *)
(*                 and its timers                                          *)
(*   Spec          the SignalingServer with its PresenceManager and store: *)
(*                 registration, motion, disconnects and timers            *)
(*   SpecRelay     the SignalingServer relaying OFFER / ANSWER /           *)
(*                 ICE_CANDIDATE between registered devices                *)
(*   SpecMesh      the useWebRTC hooks of the clients of one call          *)
(*   SpecSoftState the PresenceManager once its callers have gone silent,  *)
(*                 with a runtime that keeps running                       *)
(*   SpecScenario  two devices reporting motion a few seconds apart        *)
(*   SpecPortal    the LiveKitPortal component: when it asks for a join    *)
(*                 credential and when it gives it up                      *)
(*   SpecMotion    the useMotionDetection hook                             *)
(*   SpecMotionFair  the same, in a browser that keeps running             *)
(*   SpecInferrer  the hook fed by detectMotion on sampled frames          *)
(*   SpecDetect    detectMotion alone, from a fresh or a settled detector  *)
(*   SpecView      the SignalingServer with, per connection, the presence  *)
(*                 list its client received last                           *)
(*                                                                         *)
(* Time is a countdown kept by every armed timer; a timer fires when its   *)
(* countdown is 0, and time does not advance past a due timer.             *)
(***************************************************************************)
EXTENDS Integers, Sequences, FiniteSets, TLC

(***************************************************************************)
(* Bounds and the value spaces of the inputs                               *)
(***************************************************************************)
PresenceTimeout == 1     \* presence TTL in ticks (PRESENCE_TIMEOUT)
MaxTimers == 3           \* timer handles the runtime can hand out
NumSdp == 1              \* distinct sdp / candidate bodies 1..NumSdp
ScenarioTtl == 30        \* presence TTL of the two-device scenario, seconds
ScenarioOffset == 5      \* second device reports this long after the first

MaxTasks == 2            \* negotiation continuations in flight at a time
MaxFetches == 2          \* join-credential requests in flight at a time
MotionTimeout == 1       \* the shorter local motion timeout, in ticks
MaxSamples == 6          \* frames sampled in a run

QuorumSize == 2          \* present devices that warrant a call

\* Device ids are strings: sequences of code units, compared as JavaScript
\* compares strings.  <<1>> is a proper prefix of <<1, 2>>, and <<1, 2>> is
\* longer than <<2>> and sorts before it.
DeviceIds == { <<1>>, <<1, 2>>, <<2>> }
ServerDeviceIds == { <<1>>, <<1, 2>> }

\* Socket ids and group ids are strings too; only their identity matters.
Conns == { 1, 2 }
GroupIds == { 1, 2 }
Handles == 1..MaxTimers
Sdps == 1..NumSdp

NoConn == 0        \* Map.get(...) === undefined for a socket id
NoGroup == 0       \* no group
NoTimer == 0       \* no timer handle
NoDevice == << >>  \* Map.get(...) === undefined for a device id
NoPc == 0          \* Map.get(...) === undefined for a peer connection
\* names of the RTCPeerConnection objects alive at a time
PcIds == { 1, 2 }

VARIABLES
    \* PresenceManager
    presentDevices,   \* Map<string, Device>: device id -> groupId of the entry
    presenceTimers,   \* Map<string, Timeout>: device id -> timer handle
    timers,           \* the timers armed in the runtime (setTimeout)
    emitted,          \* presence_changed events emitted by the last step
    presenceTimeout,  \* PresenceManager.presenceTimeout, in ticks
    \* PortalDatabase
    dbGroups,         \* ids of the rows of table groups
    dbDevices,        \* table devices: device id -> group_id
    \* SignalingServer
    deviceSockets,    \* Map deviceId -> socketId
    socketDevices,    \* Map socketId -> deviceId
    open,             \* the sockets that are connected
    sent,             \* the messages emitted by the last handler, in order
    \* observation of the run
    lastEvent,        \* the step taken last, with its input
    lastCall,         \* per device: the most recent PresenceManager call
    sinceMark,        \* per device: ticks since its most recent markPresent
    marks,            \* per device: markPresent calls in the current presence
    quiet,            \* the callers of the PresenceManager have gone silent
    scenario,         \* the two-device scenario: its clock and what happened
    \* useWebRTC of one client
    myDeviceId,       \* config.deviceId
    participants,     \* the participants prop (the call roster)
    peerConnections,  \* peerConnectionsRef.current: peer id -> connection
    pcs,              \* the RTCPeerConnection objects
    remoteStreams,    \* the peers with an entry in remoteStreams
    tasks,            \* the async continuations in flight
    meshSent,         \* the messages passed to sendMessage by the last step
    setup,            \* per peer: how far the client's own offer has got
    meshEvent,        \* the step taken last
    \* LiveKitPortal of one client
    token,            \* the join credential held: the room it admits to
    portalMotionActive, \* LiveKitPortal's isMotionActive
    manualConnect,    \* a manual join has been requested
    portalPresent,    \* presentDevices of useSignaling: the ids last received
    activeGroupId,    \* the group the client is looking at
    fetches,          \* per room: the token requests in flight
    portalEvent,      \* the step taken last
    \* useMotionDetection of one client
    isMotionActive,   \* the inferrer is active
    isMotionEnabled,  \* detection is switched on
    timeoutDuration,  \* the timeoutDuration argument, in ticks
    motionTimeoutRef, \* motionTimeoutRef.current: a timeout handle or none
    motionTimers,     \* the local timeouts pending in the runtime
    rendered,         \* state and props of the last committed render
    heartbeat,        \* the heartbeat interval is running
    motionOver,       \* no real motion occurs any more
    motionCalls,      \* onDetected / onStopped calls of the last step
    motionCleared,    \* handles of the pending timeouts the last step cancelled
    motionEvent,      \* the step taken last
    \* detectMotion of that hook
    previousFrame,    \* previousFrameRef.current: the frame sampled last
    motionHistory,    \* motionHistoryRef.current: recent motionPercentage values
    baseline,         \* baselineRef.current: recent low-motion values
    motionVelocity,   \* motionVelocityRef.current: recent changes of the value
    fed,              \* every motionPercentage computed so far, oldest first
    verdict,          \* what the last detectMotion returned
    samples,          \* frames sampled since the start of the run
    \* useSignaling of the client behind each connection
    lastUpdate        \* per connection: the last PRESENCE_UPDATE sent to it

pmVars == << presentDevices, presenceTimers, timers, emitted >>

pmConfig == << presenceTimeout >>

pmObs == << lastCall, sinceMark, marks, quiet, scenario >>

hubVars == << dbGroups, dbDevices, deviceSockets, socketDevices, open, sent >>

serverVars == << pmVars, pmConfig, pmObs, hubVars, lastEvent >>

meshVars == << myDeviceId, participants, peerConnections, pcs, remoteStreams,
               tasks, meshSent, setup, meshEvent >>

portalVars == << token, portalMotionActive, manualConnect, portalPresent,
                 activeGroupId, fetches, portalEvent >>

motionVars == << isMotionActive, isMotionEnabled, timeoutDuration,
                 motionTimeoutRef, motionTimers, rendered, heartbeat,
                 motionOver, motionCalls, motionCleared, motionEvent >>

detectVars == << previousFrame, motionHistory, baseline, motionVelocity,
                 fed, verdict, samples >>

viewVars == << lastUpdate >>

clientVars == << portalVars, motionVars, detectVars, viewVars >>

vars == << serverVars, meshVars, clientVars >>

(***************************************************************************)
(* Runtime timers: setTimeout / clearTimeout                               *)
(***************************************************************************)
ClearTimeout(tm, h) == { t \in tm : t.handle # h }

FreeHandles(tm, pt) ==
    { h \in Handles : /\ \A t \in tm : t.handle # h
                      /\ \A d \in ServerDeviceIds : pt[d] # h }

\* a setTimeout whose callback is never scheduled
SetTimeout_NeverArmed(tm, h, id) == tm

SetTimeout(tm, h, id) ==
    tm \cup { [handle |-> h, deviceId |-> id, remaining |-> presenceTimeout] }

(***************************************************************************)
(* PortalDatabase: groups and devices                                      *)
(***************************************************************************)
DeviceExists(rows, id) == rows[id] # NoGroup

GetDevice(rows, id) == [id |-> id, groupId |-> rows[id]]

GetDevicesByGroup(rows, g) == { id \in DOMAIN rows : rows[id] = g }

CreateDevice(rows, id, g) == [rows EXCEPT ![id] = g]

UpdateDeviceGroup(rows, id, g) == [rows EXCEPT ![id] = g]

(***************************************************************************)
(* PresenceManager                                                         *)
(***************************************************************************)
MapHas(m, id) == m[id] # NoGroup

GetPresentDevicesInGroup(pd, g) ==
    { [id |-> id, groupId |-> g] : id \in { d \in DOMAIN pd : pd[d] = g } }

\* a markPresent that arms the new timer without cancelling the armed one
ClearExistingTimeout_Skipped(tm, pt, id) == tm

\* markPresent, lines 21-24: cancel the device's armed timer
ClearExistingTimeout(tm, pt, id) ==
    IF pt[id] # NoTimer THEN ClearTimeout(tm, pt[id]) ELSE tm

\* a markPresent that emits on every call
MarkPresentEmits_Always(wasPresent) == TRUE

\* markPresent, line 33: the event is emitted on the rising edge only
MarkPresentEmits(wasPresent) == ~wasPresent

\* markNotPresent, lines 39-40: nothing to do for a device that is not present
MarkNotPresentActs(pd, id) == MapHas(pd, id)

\* a markNotPresent that leaves the entry in the map
MarkNotPresentRemove_Keeps(pd, id) == pd

\* markNotPresent, line 42
MarkNotPresentRemove(pd, id) == [pd EXCEPT ![id] = NoGroup]

MarkPresent(device) ==
    LET wasPresent == MapHas(presentDevices, device.id)
        cleared == ClearExistingTimeout(timers, presenceTimers, device.id)
        free == FreeHandles(cleared, [presenceTimers EXCEPT ![device.id] = NoTimer])
        timer == CHOOSE h \in free : \A k \in free : h <= k
    IN /\ free # {}
       /\ presentDevices' = [presentDevices EXCEPT ![device.id] = device.groupId]
       /\ timers' = SetTimeout(cleared, timer, device.id)
       /\ presenceTimers' = [presenceTimers EXCEPT ![device.id] = timer]
       /\ emitted' = IF MarkPresentEmits(wasPresent)
                     THEN << device.groupId >> ELSE << >>

\* a markNotPresent that leaves the timer of the device armed
MarkNotPresentClears_Skipped(tm, pt, id) == tm

\* markNotPresent, lines 44-47 (clearTimeout)
MarkNotPresentClears(tm, pt, id) ==
    IF pt[id] # NoTimer THEN ClearTimeout(tm, pt[id]) ELSE tm

\* tm is the runtime's timer set when the call is made
MarkNotPresent(id, tm) ==
    IF MarkNotPresentActs(presentDevices, id)
    THEN /\ presentDevices' = MarkNotPresentRemove(presentDevices, id)
         /\ timers' = MarkNotPresentClears(tm, presenceTimers, id)
         /\ presenceTimers' = [presenceTimers EXCEPT ![id] = NoTimer]
         /\ emitted' = << presentDevices[id] >>
    ELSE /\ timers' = tm
         /\ emitted' = << >>
         /\ UNCHANGED << presentDevices, presenceTimers >>

PresenceUnchanged ==
    /\ emitted' = << >>
    /\ UNCHANGED << presentDevices, presenceTimers, timers >>

\* one unit of time passes; a due timer fires before time moves on
Elapse ==
    /\ timers # {}
    /\ \A t \in timers : t.remaining > 0
    /\ timers' = { [t EXCEPT !.remaining = @ - 1] : t \in timers }
    /\ emitted' = << >>
    /\ UNCHANGED << presentDevices, presenceTimers >>

\* deviceId is the device the step is about (payload.deviceId, payload.to)
Event(kind, sock, id, ok) ==
    [kind |-> kind, sock |-> sock, deviceId |-> id, ok |-> ok,
     groupId |-> NoGroup, from |-> NoDevice, body |-> 0]

(***************************************************************************)
(* SpecPresence: the PresenceManager through its public methods            *)
(***************************************************************************)
CallMarkPresent(id, g) ==
    /\ MarkPresent([id |-> id, groupId |-> g])
    /\ lastCall' = [lastCall EXCEPT ![id] = [kind |-> "markPresent", groupId |-> g]]
    /\ sinceMark' = [sinceMark EXCEPT ![id] = 0]
    /\ marks' = [marks EXCEPT ![id] =
                    IF lastCall[id].kind = "markPresent"
                    THEN (IF @ < 2 THEN @ + 1 ELSE @) ELSE 1]
    /\ lastEvent' = Event("markPresent", NoConn, id, TRUE)
    /\ UNCHANGED << quiet, scenario, pmConfig, hubVars, meshVars, clientVars >>

CallMarkNotPresent(id) ==
    /\ MarkNotPresent(id, timers)
    /\ lastCall' = [lastCall EXCEPT ![id] = [kind |-> "markNotPresent", groupId |-> NoGroup]]
    /\ lastEvent' = Event("markNotPresent", NoConn, id, TRUE)
    /\ UNCHANGED << sinceMark, marks, quiet >>
    /\ UNCHANGED << scenario, pmConfig, hubVars, meshVars, clientVars >>

\* the callback armed by markPresent, lines 27-29: the runtime has removed
\* the timer when the callback runs
TimerExpires(t) ==
    /\ t \in timers
    /\ t.remaining = 0
    /\ MarkNotPresent(t.deviceId, timers \ {t})
    /\ lastCall' = [lastCall EXCEPT ![t.deviceId] = [kind |-> "fired", groupId |-> NoGroup]]
    /\ lastEvent' = Event("expire", NoConn, t.deviceId, TRUE)
    /\ UNCHANGED << sinceMark, marks, quiet >>
    /\ UNCHANGED << scenario, pmConfig, hubVars, meshVars, clientVars >>

TickPresence ==
    /\ Elapse
    /\ sinceMark' = [d \in ServerDeviceIds |->
                        IF lastCall[d].kind = "markPresent"
                           /\ sinceMark[d] <= presenceTimeout
                        THEN sinceMark[d] + 1 ELSE sinceMark[d]]
    /\ lastEvent' = Event("tick", NoConn, NoDevice, TRUE)
    /\ UNCHANGED << lastCall, marks, quiet >>
    /\ UNCHANGED << scenario, pmConfig, hubVars, meshVars, clientVars >>

NextPresence ==
    \/ \E id \in ServerDeviceIds, g \in GroupIds : CallMarkPresent(id, g)
    \/ \E id \in ServerDeviceIds : CallMarkNotPresent(id)
    \/ \E t \in timers : TimerExpires(t)
    \/ TickPresence

\* from some moment on nobody calls markPresent or markNotPresent any more:
\* no motion is reported and no connection is closed
GoQuiet ==
    /\ ~quiet
    /\ quiet' = TRUE
    /\ lastEvent' = Event("quiet", NoConn, NoDevice, TRUE)
    /\ emitted' = << >>
    /\ UNCHANGED << presentDevices, presenceTimers, timers >>
    /\ UNCHANGED << lastCall, sinceMark, marks, scenario, pmConfig, hubVars,
                    meshVars, clientVars >>

ExpireDue == \E t \in timers : TimerExpires(t)

NextSoftState ==
    \/ \E id \in ServerDeviceIds, g \in GroupIds :
          ~quiet /\ CallMarkPresent(id, g)
    \/ \E id \in ServerDeviceIds : ~quiet /\ CallMarkNotPresent(id)
    \/ ExpireDue
    \/ TickPresence
    \/ GoQuiet

(***************************************************************************)
(* SignalingServer: messages                                               *)
(***************************************************************************)
Msg(sock, type, payload) == [sock |-> sock, type |-> type, payload |-> payload]

ErrorMsg(sock, code) == Msg(sock, "error", [code |-> code])

PresenceUpdate(sock, g, pd) ==
    Msg(sock, "presence_update",
        [groupId |-> g, presentDevices |-> GetPresentDevicesInGroup(pd, g)])

\* the loop of broadcastToGroup; SELECT without ORDER BY fixes no row order,
\* the model takes the rows in one fixed order
RECURSIVE EmitToBound(_, _, _, _)
EmitToBound(ids, ds, g, pd) ==
    IF ids = {} THEN << >>
    ELSE LET deviceId == CHOOSE d \in ids : \A e \in ids : Len(d) <= Len(e)
             socketId == ds[deviceId]
             rest == EmitToBound(ids \ {deviceId}, ds, g, pd)
         IN IF socketId # NoConn
            THEN << PresenceUpdate(socketId, g, pd) >> \o rest
            ELSE rest

\* a broadcast that reaches the present devices only, as startConference does
HandlePresenceChange_PresentOnly(groups, rows, ds, g, pd) ==
    IF g \notin groups THEN << >>
    ELSE EmitToBound({ d \in GetDevicesByGroup(rows, g) : pd[d] = g }, ds, g, pd)

\* startConference with no conference recorded for the group (nothing ever
\* records one): CONFERENCE_START to the bound present devices
RECURSIVE StartConference(_, _, _, _)
StartConference(ids, ds, g, participantIds) ==
    IF ids = {} THEN << >>
    ELSE LET deviceId == CHOOSE d \in ids : \A e \in ids : Len(d) <= Len(e)
             socketId == ds[deviceId]
             rest == StartConference(ids \ {deviceId}, ds, g, participantIds)
         IN IF socketId # NoConn
            THEN << Msg(socketId, "conference_start",
                        [conferenceId |-> g, participants |-> participantIds]) >>
                 \o rest
            ELSE rest

\* handlePresenceChange with the start of the conference switched on
HandlePresenceChange_Coordinating(groups, rows, ds, g, pd) ==
    LET participantIds == { d \in DOMAIN pd : pd[d] = g }
        updates == IF g \notin groups THEN << >>
                   ELSE EmitToBound(GetDevicesByGroup(rows, g), ds, g, pd)
    IN  IF Cardinality(participantIds) >= QuorumSize
        THEN updates \o StartConference(participantIds, ds, g, participantIds)
        ELSE updates

\* handlePresenceChange: broadcastToGroup of the PRESENCE_UPDATE
HandlePresenceChange(groups, rows, ds, g, pd) ==
    IF g \notin groups THEN << >>
    ELSE EmitToBound(GetDevicesByGroup(rows, g), ds, g, pd)

\* a hub that never subscribed to presence_changed
Broadcasts_Unheard == << >>

\* a listener that reads the registry as it was before the triggering call
Broadcasts_Stale ==
    IF emitted' = << >> THEN << >>
    ELSE HandlePresenceChange(dbGroups, dbDevices, deviceSockets,
                              emitted'[1], presentDevices)

\* the presence_changed listener of setupPresenceHandlers runs synchronously
\* inside emit, with the bindings and the store as they are at that moment
Broadcasts ==
    IF emitted' = << >> THEN << >>
    ELSE HandlePresenceChange(dbGroups, dbDevices, deviceSockets,
                              emitted'[1], presentDevices')

\* io.to(socketId).emit and socket.emit reach connected sockets only
Delivered == SelectSeq(sent, LAMBDA m : m.sock \in open)

(***************************************************************************)
(* SignalingServer handlers                                                *)
(***************************************************************************)
StoreUnchanged == UNCHANGED << dbGroups, dbDevices >>

BindingsUnchanged == UNCHANGED << deviceSockets, socketDevices >>

\* io.on('connection'): a socket with a fresh id connects.  An id of the
\* model stands for a fresh id when nothing in the hub refers to it.
Connect(c) ==
    /\ c \notin open
    /\ socketDevices[c] = NoDevice
    /\ \A d \in ServerDeviceIds : deviceSockets[d] # c
    /\ open' = open \cup {c}
    /\ sent' = << >>
    /\ lastEvent' = Event("connect", c, NoDevice, TRUE)
    /\ PresenceUnchanged /\ StoreUnchanged /\ BindingsUnchanged

\* a register that keeps the binding a device already has
RegisterBinds_KeepsFirst(ds, c, deviceId) ==
    IF ds[deviceId] # NoConn THEN ds ELSE [ds EXCEPT ![deviceId] = c]

\* handleRegister, lines 126-128
RegisterBinds(ds, c, deviceId) == [ds EXCEPT ![deviceId] = c]

\* a register that sends the snapshot before the acknowledgement
RegisterReplies_SnapshotFirst(c, deviceId, groupId, pd) ==
    << PresenceUpdate(c, groupId, pd),
       Msg(c, "register_ack",
           [success |-> TRUE, deviceId |-> deviceId, groupId |-> groupId]) >>

\* handleRegister, lines 130-152
RegisterReplies(c, deviceId, groupId, pd) ==
    << Msg(c, "register_ack",
           [success |-> TRUE, deviceId |-> deviceId, groupId |-> groupId]),
       PresenceUpdate(c, groupId, pd) >>

HandleRegister(c, deviceId, groupId, groupThrows, deviceThrows) ==
    LET needGroup == groupId \notin dbGroups
        groupFailed == needGroup /\ groupThrows
        needDevice == ~DeviceExists(dbDevices, deviceId)
        deviceFailed == ~groupFailed /\ needDevice /\ deviceThrows
        ok == ~groupFailed /\ ~deviceFailed
    IN /\ c \in open
       /\ dbGroups' = IF groupFailed THEN dbGroups ELSE dbGroups \cup {groupId}
       /\ dbDevices' =
            IF groupFailed \/ deviceFailed THEN dbDevices
            ELSE IF needDevice THEN CreateDevice(dbDevices, deviceId, groupId)
            ELSE IF deviceThrows THEN dbDevices
            ELSE UpdateDeviceGroup(dbDevices, deviceId, groupId)
       /\ IF ok
          THEN /\ deviceSockets' = RegisterBinds(deviceSockets, c, deviceId)
               /\ socketDevices' = [socketDevices EXCEPT ![c] = deviceId]
               /\ sent' = RegisterReplies(c, deviceId, groupId, presentDevices)
          ELSE /\ sent' = << ErrorMsg(c, IF groupFailed
                                         THEN "GROUP_CREATION_FAILED"
                                         ELSE "REGISTER_FAILED") >>
               /\ UNCHANGED << deviceSockets, socketDevices >>
       /\ lastEvent' = [Event("register", c, deviceId, ok)
                           EXCEPT !.groupId = groupId]
       /\ PresenceUnchanged
       /\ UNCHANGED open

\* a handler that marks the device present without looking at the store's
\* answer
HandleMotionDetected_Unchecked(c, deviceId) ==
    LET deviceData == GetDevice(dbDevices, deviceId)
        found == DeviceExists(dbDevices, deviceId)
    IN /\ c \in open
       /\ MarkPresent([id |-> deviceId,
                       groupId |-> IF found THEN deviceData.groupId
                                   ELSE CHOOSE g \in GroupIds : TRUE])
       /\ sent' = Broadcasts
       /\ lastEvent' = Event("motion_detected", c, deviceId, found)
       /\ StoreUnchanged /\ BindingsUnchanged
       /\ UNCHANGED open

HandleMotionDetected(c, deviceId) ==
    LET deviceData == GetDevice(dbDevices, deviceId)
        found == DeviceExists(dbDevices, deviceId)
    IN /\ c \in open
       /\ IF found
          THEN /\ MarkPresent([id |-> deviceData.id,
                               groupId |-> deviceData.groupId])
               /\ sent' = Broadcasts
          ELSE /\ PresenceUnchanged
               /\ sent' = << ErrorMsg(c, "DEVICE_NOT_FOUND") >>
       /\ lastEvent' = Event("motion_detected", c, deviceId, found)
       /\ StoreUnchanged /\ BindingsUnchanged
       /\ UNCHANGED open

HandleMotionStopped(c, deviceId) ==
    /\ c \in open
    /\ MarkNotPresent(deviceId, timers)
    /\ sent' = Broadcasts
    /\ lastEvent' = Event("motion_stopped", c, deviceId, TRUE)
    /\ StoreUnchanged /\ BindingsUnchanged
    /\ UNCHANGED open

\* an offer / answer handler that drops a message for an unbound device
NegotiationMiss_Silent(c) == << >>

\* handleOffer / handleAnswer, lines 280-283 and 296-299
NegotiationMiss(c) == << ErrorMsg(c, "PEER_NOT_FOUND") >>

\* a candidate handler that reports an unbound device like handleOffer
CandidateMiss_Error(c) == << ErrorMsg(c, "PEER_NOT_FOUND") >>

\* handleIceCandidate, lines 312-314
CandidateMiss(c) == << >>

\* lines 285-289, 301-305, 316-320
Relay(targetSocketId, type, from, to, body) ==
    << Msg(targetSocketId, type, [from |-> from, to |-> to, body |-> body]) >>

Route(c, type, from, to, body, miss) ==
    LET targetSocketId == deviceSockets[to]
    IN /\ c \in open
       /\ sent' = IF targetSocketId = NoConn THEN miss
                  ELSE Relay(targetSocketId, type, from, to, body)
       /\ lastEvent' = [Event(type, c, to, targetSocketId # NoConn)
                           EXCEPT !.from = from, !.body = body]
       /\ PresenceUnchanged /\ StoreUnchanged /\ BindingsUnchanged
       /\ UNCHANGED open

HandleOffer(c, from, to, sdp) ==
    Route(c, "offer", from, to, sdp, NegotiationMiss(c))

HandleAnswer(c, from, to, sdp) ==
    Route(c, "answer", from, to, sdp, NegotiationMiss(c))

HandleIceCandidate(c, from, to, candidate) ==
    Route(c, "ice_candidate", from, to, candidate, CandidateMiss(c))

\* a disconnect that clears the device's binding whatever it points at
DisconnectOwnsBinding_Always(ds, c, deviceId) == TRUE

\* handleDisconnect, line 332
DisconnectOwnsBinding(ds, c, deviceId) == ds[deviceId] = c

\* socket.on('disconnect'): the socket has left its room when the handler runs
HandleDisconnect(c) ==
    LET deviceId == socketDevices[c]
    IN /\ c \in open
       /\ open' = open \ {c}
       /\ IF deviceId # NoDevice
          THEN /\ IF DisconnectOwnsBinding(deviceSockets, c, deviceId)
                  THEN /\ MarkNotPresent(deviceId, timers)
                       /\ sent' = Broadcasts
                       /\ deviceSockets' = [deviceSockets EXCEPT ![deviceId] = NoConn]
                  ELSE /\ PresenceUnchanged
                       /\ sent' = << >>
                       /\ UNCHANGED deviceSockets
               /\ socketDevices' = [socketDevices EXCEPT ![c] = NoDevice]
          ELSE /\ PresenceUnchanged
               /\ sent' = << >>
               /\ BindingsUnchanged
       /\ lastEvent' = Event("disconnect", c, deviceId, TRUE)
       /\ StoreUnchanged

\* the callback armed by markPresent, with the hub listening
TimerFires(t) ==
    /\ t \in timers
    /\ t.remaining = 0
    /\ MarkNotPresent(t.deviceId, timers \ {t})
    /\ sent' = Broadcasts
    /\ lastEvent' = Event("expire", NoConn, t.deviceId, TRUE)
    /\ StoreUnchanged /\ BindingsUnchanged
    /\ UNCHANGED open

Tick ==
    /\ Elapse
    /\ sent' = << >>
    /\ lastEvent' = Event("tick", NoConn, NoDevice, TRUE)
    /\ StoreUnchanged /\ BindingsUnchanged
    /\ UNCHANGED open

(***************************************************************************)
(* useWebRTC: the hook of one client                                       *)
(***************************************************************************)
\* JavaScript's < on strings: code units left to right, a proper prefix first
RECURSIVE LexLess(_, _)
LexLess(a, b) ==
    IF b = << >> THEN FALSE
    ELSE IF a = << >> THEN TRUE
    ELSE IF Head(a) < Head(b) THEN TRUE
    ELSE IF Head(a) > Head(b) THEN FALSE
    ELSE LexLess(Tail(a), Tail(b))

\* a reconciliation in which every client offers
ShouldInitiate_Always(my, peerId) == TRUE

\* the reconciliation effect, line 194
ShouldInitiate(my, peerId) == LexLess(my, peerId)

FreePc == [peer |-> NoDevice, state |-> "free", hasLocal |-> FALSE,
           hasRemote |-> FALSE]

FreePcIds(st) == { i \in PcIds : st.pcs[i].state = "free" }

MeshState == [map |-> peerConnections, pcs |-> pcs, streams |-> remoteStreams,
              tasks |-> tasks, out |-> << >>]

\* lines 27-77: a new connection replaces the map's entry for the peer
CreatePeerConnection(st, peerId) ==
    LET free == FreePcIds(st)
        pc == CHOOSE i \in free : \A k \in free : i <= k
    IN [st EXCEPT !.pcs[pc] = [peer |-> peerId, state |-> "open",
                               hasLocal |-> FALSE, hasRemote |-> FALSE],
                  !.map[peerId] = pc]

ClosePeerConnection(st, peerId) ==
    LET pc == st.map[peerId]
    IN IF pc # NoPc
       THEN [st EXCEPT !.pcs[pc].state = "closed",
                       !.map[peerId] = NoPc,
                       !.streams = @ \ {peerId}]
       ELSE [st EXCEPT !.streams = @ \ {peerId}]

Task(kind, peerId, pc, stage) ==
    [kind |-> kind, peer |-> peerId, pc |-> pc, stage |-> stage]

\* createOffer up to its first await, lines 94-98
CreateOffer(st, peerId) ==
    LET made == CreatePeerConnection(st, peerId)
    IN [made EXCEPT !.tasks = @ \cup
            { Task("createOffer", peerId, made.map[peerId], "createOffer") }]

\* the order of an array of ids; the model takes the ids in one fixed order
First(ids) == CHOOSE p \in ids : \A q \in ids : p = q \/ LexLess(p, q)

\* lines 190-198
RECURSIVE CreateForNew(_, _, _)
CreateForNew(st, my, ids) ==
    IF ids = {} THEN st
    ELSE LET peerId == First(ids)
             next == IF st.map[peerId] = NoPc /\ ShouldInitiate(my, peerId)
                     THEN CreateOffer(st, peerId) ELSE st
         IN CreateForNew(next, my, ids \ {peerId})

\* lines 201-206
RECURSIVE CloseRemoved(_, _)
CloseRemoved(st, ids) ==
    IF ids = {} THEN st
    ELSE LET peerId == First(ids)
         IN CloseRemoved(ClosePeerConnection(st, peerId), ids \ {peerId})

Reconcile(st, my, roster) ==
    LET otherParticipants == roster \ {my}
        created == CreateForNew(st, my, otherParticipants)
        currentPeers == { q \in DeviceIds : created.map[q] # NoPc }
    IN CloseRemoved(created, currentPeers \ otherParticipants)

\* A closed connection that no continuation holds is unreachable.  The ids
\* of the objects carry no meaning: the live objects are renumbered in the
\* order of their creation.
Collect(st) ==
    LET live == { i \in PcIds :
                    /\ st.pcs[i].state # "free"
                    /\ ~(st.pcs[i].state = "closed"
                          /\ \A t \in st.tasks : t.pc # i) }
        Rank(i) == Cardinality({ j \in live : j <= i })
    IN [st EXCEPT
          !.pcs = [k \in PcIds |->
                     IF \E i \in live : Rank(i) = k
                     THEN st.pcs[CHOOSE i \in live : Rank(i) = k]
                     ELSE FreePc],
          !.map = [q \in DeviceIds |->
                     IF st.map[q] = NoPc THEN NoPc ELSE Rank(st.map[q])],
          !.tasks = { [t EXCEPT !.pc = Rank(t.pc)] : t \in st.tasks }]

Commit(st, kind, peerId) ==
    LET done == Collect(st)
        offeredNow == { done.out[i].to : i \in { j \in DOMAIN done.out :
                                                   done.out[j].type = "offer" } }
        pendingPc(q) == \E t \in done.tasks :
                           /\ t.kind = "createOffer" /\ t.peer = q
                           /\ done.pcs[t.pc].state # "closed"
    IN /\ peerConnections' = done.map
       /\ pcs' = done.pcs
       /\ remoteStreams' = done.streams
       /\ tasks' = done.tasks
       /\ meshSent' = done.out
       /\ meshEvent' = [kind |-> kind, peer |-> peerId]
       /\ setup' = [q \in DeviceIds |->
             IF q \notin participants' \ {myDeviceId} THEN "none"
             ELSE IF \E t \in st.tasks \ tasks :
                        t.kind = "createOffer" /\ t.peer = q THEN "pending"
             ELSE IF q \in offeredNow THEN "offered"
             ELSE IF setup[q] = "pending" /\ ~pendingPc(q) THEN "failed"
             ELSE setup[q]]
       /\ UNCHANGED myDeviceId

\* the participants effect, lines 185-207
SetParticipants(roster) ==
    LET st == Reconcile(MeshState, myDeviceId, roster)
        wanted == { q \in roster \ {myDeviceId} :
                      peerConnections[q] = NoPc /\ ShouldInitiate(myDeviceId, q) }
    IN /\ Cardinality(wanted) <= Cardinality(FreePcIds(MeshState))
       /\ Cardinality(wanted) + Cardinality(tasks) <= MaxTasks
       /\ participants' = roster
       /\ Commit(st, "participants", NoDevice)

Message(type, from, to) == [type |-> type, from |-> from, to |-> to]

LastStage(t) ==
    \/ t.kind = "createOffer" /\ t.stage = "setLocalDescription"
    \/ t.kind = "handleOffer" /\ t.stage = "setLocalDescription"
    \/ t.kind = "handleAnswer"

NextStage(t) ==
    IF t.kind = "createOffer" THEN "setLocalDescription"
    ELSE IF t.stage = "setRemoteDescription" THEN "createAnswer"
    ELSE "setLocalDescription"

\* what the continuation does when its await resolves
Resolved(st, my, t) ==
    LET applied ==
            [st EXCEPT !.pcs[t.pc].hasLocal =
                          @ \/ t.stage = "setLocalDescription",
                       !.pcs[t.pc].hasRemote =
                          @ \/ t.stage = "setRemoteDescription",
                       !.tasks = @ \ {t}]
    IN IF LastStage(t)
       THEN IF t.kind = "createOffer"
            THEN [applied EXCEPT !.out = << Message("offer", my, t.peer) >>]
            ELSE IF t.kind = "handleOffer"
            THEN [applied EXCEPT !.out = << Message("answer", my, t.peer) >>]
            ELSE applied
       ELSE [applied EXCEPT !.tasks = @ \cup
                { Task(t.kind, t.peer, t.pc, NextStage(t)) }]

\* a catch block that tears down every connection of the hook
Rejected_ClosesAll(st, t) ==
    CloseRemoved([st EXCEPT !.tasks = @ \ {t}],
                 { q \in DeviceIds : st.map[q] # NoPc } \cup {t.peer})

\* the catch blocks, lines 112-115, 138-141, 155-158
Rejected(st, t) ==
    ClosePeerConnection([st EXCEPT !.tasks = @ \ {t}], t.peer)

\* An awaited operation settles.  It resolves only on a connection that is
\* not closed; it may reject on any connection.
Settles(t, ok) ==
    /\ t \in tasks
    /\ ok => pcs[t.pc].state # "closed"
    /\ UNCHANGED participants
    /\ Commit(IF ok THEN Resolved(MeshState, myDeviceId, t)
              ELSE Rejected(MeshState, t),
              IF ok THEN "resolved" ELSE "rejected", t.peer)

\* handleOffer up to its first await, lines 118-123
WebRTCHandleOffer(from) ==
    /\ FreePcIds(MeshState) # {}
    /\ Cardinality(tasks) < MaxTasks
    /\ UNCHANGED participants
    /\ LET made == CreatePeerConnection(MeshState, from)
       IN Commit([made EXCEPT !.tasks = @ \cup
                     { Task("handleOffer", from, made.map[from],
                            "setRemoteDescription") }],
                 "offer", from)

\* handleAnswer up to its await, lines 144-154
WebRTCHandleAnswer(from) ==
    LET pc == peerConnections[from]
    IN /\ Cardinality(tasks) < MaxTasks
       /\ UNCHANGED participants
       /\ Commit(IF pc = NoPc THEN MeshState
                 ELSE [MeshState EXCEPT !.tasks = @ \cup
                         { Task("handleAnswer", from, pc, "setRemoteDescription") }],
                 "answer", from)

\* pc.ontrack, lines 49-58
OnTrack(pc) ==
    /\ pcs[pc].state \in { "open", "failed" }
    /\ pcs[pc].hasRemote
    /\ pcs[pc].peer \notin remoteStreams
    /\ UNCHANGED participants
    /\ Commit([MeshState EXCEPT !.streams = @ \cup { pcs[pc].peer }],
              "track", pcs[pc].peer)

\* pc.onconnectionstatechange with connectionState 'failed', lines 61-67;
\* the transports exist once a local description is set
ConnectionFails(pc) ==
    /\ pcs[pc].state = "open"
    /\ pcs[pc].hasLocal
    /\ UNCHANGED participants
    /\ Commit(ClosePeerConnection(
                 [MeshState EXCEPT !.pcs[pc].state = "failed"], pcs[pc].peer),
              "failed", pcs[pc].peer)

\* the order of the three test ids, written out
Precedes(a, b) ==
    << a, b >> \in { << <<1>>, <<1, 2>> >>, << <<1>>, <<2>> >>,
                     << <<1, 2>>, <<2>> >> }

\* The roster is empty or holds the client itself (the present devices of
\* its group).  The peers run the same hook: an OFFER arrives only from a
\* peer whose id sorts before the client's own.
NextMesh ==
    \/ \E roster \in { r \in SUBSET DeviceIds : r = {} \/ myDeviceId \in r } :
          SetParticipants(roster) /\ UNCHANGED << serverVars, clientVars >>
    \/ \E t \in tasks, ok \in BOOLEAN : Settles(t, ok) /\ UNCHANGED << serverVars, clientVars >>
    \/ \E from \in DeviceIds :
          /\ Precedes(from, myDeviceId)
          /\ WebRTCHandleOffer(from) /\ UNCHANGED << serverVars, clientVars >>
    \/ \E from \in DeviceIds \ {myDeviceId} :
          WebRTCHandleAnswer(from) /\ UNCHANGED << serverVars, clientVars >>
    \/ \E pc \in PcIds : OnTrack(pc) /\ UNCHANGED << serverVars, clientVars >>
    \/ \E pc \in PcIds : ConnectionFails(pc) /\ UNCHANGED << serverVars, clientVars >>

(***************************************************************************)
(* LiveKitPortal (client/src/components/LiveKitPortal.tsx): when the       *)
(* client asks for a join credential and when it gives it up.  The client  *)
(* is in the room of its token for as long as it holds one.  A step is one *)
(* callback together with the renders and effects it causes.               *)
(***************************************************************************)
NoToken == 0       \* token === ""

\* const shouldJoin = !token && (manualConnect || (isMotionActive &&
\*                                presentDevices.length >= 2))
ShouldJoin(tok, manual, active, present) ==
    /\ tok = NoToken
    /\ manual \/ (active /\ Cardinality(present) >= QuorumSize)

\* the dependency list of the join effect
JoinDeps(tok, manual, active, present, g) ==
    << active, tok, Cardinality(present), manual, g >>

InFlight(f) == f[1] + f[2]

\* fetchToken(): one more request for a credential to room g
FetchToken(f, g) == [f EXCEPT ![g] = @ + 1]

\* The join effect of a render: it runs when one of its dependencies
\* differs from the previous render and starts a request when shouldJoin.
JoinEffect(f, before, tok, manual, active, present, g) ==
    IF /\ before # JoinDeps(tok, manual, active, present, g)
       /\ ShouldJoin(tok, manual, active, present)
    THEN FetchToken(f, g)
    ELSE f

\* The state setters of one callback have run: the component renders with
\* the new state and its effects run.
PortalRender(kind, tok, manual, active, present) ==
    LET before == JoinDeps(token, manualConnect, portalMotionActive,
                           portalPresent, activeGroupId)
        f == JoinEffect(fetches, before, tok, manual, active, present,
                        activeGroupId)
    IN  /\ InFlight(f) <= MaxFetches
        /\ token' = tok
        /\ manualConnect' = manual
        /\ portalMotionActive' = active
        /\ portalPresent' = present
        /\ fetches' = f
        /\ portalEvent' = kind
        /\ UNCHANGED activeGroupId

\* useSignaling: a PRESENCE_UPDATE arrives, setPresentDevices(payload)
PortalPresenceUpdate(ids) ==
    PortalRender("presence", token, manualConnect, portalMotionActive, ids)

\* handleMotionDetected, called by useMotionDetection
PortalMotionDetected ==
    PortalRender("detected", token, manualConnect, TRUE, portalPresent)

\* handleMotionStopped, called by useMotionDetection
PortalMotionStopped ==
    PortalRender("stopped", NoToken, FALSE, FALSE, portalPresent)

\* the Join Call action of a notification: setManualConnect(true)
JoinCallClick ==
    PortalRender("join", token, TRUE, portalMotionActive, portalPresent)

\* the Connect Manually button of the idle view, shown while motion is
\* active and no token is held
ConnectManuallyClick ==
    /\ token = NoToken
    /\ portalMotionActive
    /\ PortalRender("manual", token, TRUE, TRUE, portalPresent)

\* the request for room g succeeds: setToken(data.token)
FetchResolves(g) ==
    /\ fetches[g] > 0
    /\ token' = g
    /\ fetches' = [fetches EXCEPT ![g] = @ - 1]
    /\ portalEvent' = "token"
    /\ UNCHANGED << manualConnect, portalMotionActive, portalPresent,
                    activeGroupId >>

\* the request for room g fails: setManualConnect(false), and the join
\* effect runs again when that changed manualConnect
FetchRejects(g) ==
    LET before == JoinDeps(token, manualConnect, portalMotionActive,
                           portalPresent, activeGroupId)
        f == [fetches EXCEPT ![g] = @ - 1]
    IN  /\ fetches[g] > 0
        /\ manualConnect' = FALSE
        /\ fetches' = JoinEffect(f, before, token, FALSE, portalMotionActive,
                                 portalPresent, activeGroupId)
        /\ portalEvent' = "failed"
        /\ UNCHANGED << token, portalMotionActive, portalPresent,
                        activeGroupId >>

\* handleDisconnect: onDisconnected of the LiveKitRoom, which is mounted
\* while a token is held
PortalHandleDisconnect ==
    /\ token # NoToken
    /\ PortalRender("disconnected", NoToken, FALSE, FALSE, portalPresent)

\* useActiveGroup yields another group.  The render with the new group runs
\* the effect that clears token and manualConnect and then the join effect,
\* which still sees the old token and flag; the render after the clearing
\* runs the join effect again.
ChangeActiveGroup(g) ==
    LET before == JoinDeps(token, manualConnect, portalMotionActive,
                           portalPresent, activeGroupId)
        f1 == JoinEffect(fetches, before, token, manualConnect,
                         portalMotionActive, portalPresent, g)
        between == JoinDeps(token, manualConnect, portalMotionActive,
                            portalPresent, g)
        f2 == JoinEffect(f1, between, NoToken, FALSE, portalMotionActive,
                         portalPresent, g)
    IN  /\ g # activeGroupId
        /\ InFlight(f2) <= MaxFetches
        /\ activeGroupId' = g
        /\ token' = NoToken
        /\ manualConnect' = FALSE
        /\ fetches' = f2
        /\ portalEvent' = "group"
        /\ UNCHANGED << portalMotionActive, portalPresent >>

NextPortal ==
    \/ \E ids \in SUBSET DeviceIds :
          PortalPresenceUpdate(ids) /\ UNCHANGED << serverVars, meshVars, motionVars, detectVars, viewVars >>
    \/ PortalMotionDetected /\ UNCHANGED << serverVars, meshVars, motionVars, detectVars, viewVars >>
    \/ PortalMotionStopped /\ UNCHANGED << serverVars, meshVars, motionVars, detectVars, viewVars >>
    \/ JoinCallClick /\ UNCHANGED << serverVars, meshVars, motionVars, detectVars, viewVars >>
    \/ ConnectManuallyClick /\ UNCHANGED << serverVars, meshVars, motionVars, detectVars, viewVars >>
    \/ \E g \in GroupIds : FetchResolves(g) /\ UNCHANGED << serverVars, meshVars, motionVars, detectVars, viewVars >>
    \/ \E g \in GroupIds : FetchRejects(g) /\ UNCHANGED << serverVars, meshVars, motionVars, detectVars, viewVars >>
    \/ PortalHandleDisconnect /\ UNCHANGED << serverVars, meshVars, motionVars, detectVars, viewVars >>
    \/ \E g \in GroupIds : ChangeActiveGroup(g) /\ UNCHANGED << serverVars, meshVars, motionVars, detectVars, viewVars >>

\* useState initial values; the first render starts no request
InitPortal ==
    /\ token = NoToken
    /\ portalMotionActive = FALSE
    /\ manualConnect = FALSE
    /\ portalPresent = {}
    /\ activeGroupId = 1
    /\ fetches = [g \in GroupIds |-> 0]
    /\ portalEvent = "init"

(***************************************************************************)
(* useMotionDetection (client/src/hooks/useMotionDetection.ts): the local  *)
(* inferrer of motion.  `rendered' holds the state and props of the last   *)
(* committed render; the callbacks in use are the closures of that render. *)
(* A state setter changes the state at once and the render follows as a    *)
(* step of its own (Rerender), which also runs the effect cleanups.        *)
(***************************************************************************)
Durations == { MotionTimeout, MotionTimeout + 1 }

Current == [active |-> isMotionActive, enabled |-> isMotionEnabled,
            duration |-> timeoutDuration]

\* a handle the runtime has not handed out to a timeout that is pending or
\* still referred to
FreshMotionHandle ==
    CHOOSE h \in Handles :
        /\ h # motionTimeoutRef
        /\ \A t \in motionTimers : t.handle # h
        /\ \A k \in Handles :
              (k # motionTimeoutRef /\ \A t \in motionTimers : t.handle # k)
                  => h <= k

\* a clearTimeout that cancels nothing
ClearMotionTimeout_Skipped(tm, ref) == tm

\* if (motionTimeoutRef.current) clearTimeout(motionTimeoutRef.current)
ClearMotionTimeout(tm, ref) ==
    IF ref # NoTimer THEN ClearTimeout(tm, ref) ELSE tm

\* the cleanup of the sampling-loop effect, lines 216-223: the pending
\* timeout is cleared, motionTimeoutRef.current keeps the handle
CleanupClears(tm, ref) == ClearMotionTimeout(tm, ref)

\* the pending timeouts that the step cancels
Cancelled ==
    { t.handle : t \in motionTimers } \ { t.handle : t \in motionTimers' }

\* a timeout armed with the default duration, whatever the caller supplied
ArmMotionTimeout_Fixed(tm, h, duration) ==
    tm \cup { [handle |-> h, remaining |-> MotionTimeout] }

\* setTimeout(..., timeoutDuration) of checkMotion
ArmMotionTimeout(tm, h, duration) ==
    tm \cup { [handle |-> h, remaining |-> duration] }

\* a checkMotion that reports every real-motion sample
RisingEdge_Always(active) == TRUE

\* if (!isMotionActive), line 162
RisingEdge(active) == ~active

\* checkMotion of the rendered closure, with the verdict of detectMotion.
\* detectMotion answers false within 100 ms of the previous sample, so a
\* real-motion sample finds the render of the previous one committed.
CheckMotion(real) ==
    /\ real => (~motionOver /\ rendered = Current)
    /\ motionEvent' = IF real THEN "motion" ELSE "still"
    /\ IF ~rendered.enabled
       THEN /\ motionCalls' = << >>
            /\ UNCHANGED << isMotionActive, motionTimeoutRef, motionTimers >>
       ELSE IF real
       THEN /\ isMotionActive' = TRUE
            /\ motionCalls' = IF RisingEdge(rendered.active)
                              THEN << "detected" >>
                              ELSE << >>
            /\ motionTimers' =
                  ArmMotionTimeout(
                      ClearMotionTimeout(motionTimers, motionTimeoutRef),
                      FreshMotionHandle, rendered.duration)
            /\ motionTimeoutRef' = FreshMotionHandle
       ELSE IF rendered.active /\ motionTimeoutRef = NoTimer
       THEN /\ motionTimers' = ArmMotionTimeout(motionTimers,
                                  FreshMotionHandle, rendered.duration)
            /\ motionTimeoutRef' = FreshMotionHandle
            /\ motionCalls' = << >>
            /\ UNCHANGED isMotionActive
       ELSE /\ motionCalls' = << >>
            /\ UNCHANGED << isMotionActive, motionTimeoutRef, motionTimers >>
    /\ UNCHANGED << isMotionEnabled, timeoutDuration, rendered, heartbeat,
                    motionOver >>
    /\ motionCleared' = Cancelled

\* the callback of the local timeout, lines 174-178 and 182-186
MotionTimeoutFires(t) ==
    /\ t.remaining = 0
    /\ motionTimers' = motionTimers \ {t}
    /\ isMotionActive' = FALSE
    /\ motionCalls' = << "stopped" >>
    /\ motionEvent' = "timeout"
    /\ motionCleared' = {}
    /\ UNCHANGED << isMotionEnabled, timeoutDuration, motionTimeoutRef,
                    rendered, heartbeat, motionOver >>

\* time passes, up to the moment the next timeout is due
MotionTick ==
    /\ motionTimers # {}
    /\ \A t \in motionTimers : t.remaining > 0
    /\ motionTimers' = { [t EXCEPT !.remaining = @ - 1] : t \in motionTimers }
    /\ motionCalls' = << >>
    /\ motionEvent' = "tick"
    /\ motionCleared' = {}
    /\ UNCHANGED << isMotionActive, isMotionEnabled, timeoutDuration,
                    motionTimeoutRef, rendered, heartbeat, motionOver >>

\* toggleMotion of the rendered closure.  A click is rendered before the
\* next one is handled, so the closure holds the current isMotionEnabled.
ToggleMotion ==
    /\ rendered.enabled = isMotionEnabled
    /\ isMotionEnabled' = ~isMotionEnabled
    /\ motionEvent' = "toggle"
    /\ IF rendered.enabled
       THEN /\ isMotionActive' = FALSE
            /\ motionCalls' = << "stopped" >>
            /\ motionTimers' = ClearMotionTimeout(motionTimers, motionTimeoutRef)
       ELSE /\ motionCalls' = << >>
            /\ UNCHANGED << isMotionActive, motionTimers >>
    /\ UNCHANGED << timeoutDuration, motionTimeoutRef, rendered, heartbeat,
                    motionOver >>
    /\ motionCleared' = Cancelled

\* the caller passes another timeoutDuration (onSetMotionTimeout)
SetMotionTimeout(d) ==
    /\ rendered.duration = timeoutDuration
    /\ d # timeoutDuration
    /\ timeoutDuration' = d
    /\ motionCalls' = << >>
    /\ motionEvent' = "duration"
    /\ motionCleared' = {}
    /\ UNCHANGED << isMotionActive, isMotionEnabled, motionTimeoutRef,
                    motionTimers, rendered, heartbeat, motionOver >>

\* The render after a change of isMotionActive, isMotionEnabled or
\* timeoutDuration: checkMotion is a new function, so the sampling-loop
\* effect is cleaned up and run again, and the heartbeat effect is re-run.
Rerender ==
    /\ rendered # Current
    /\ rendered' = Current
    /\ motionTimers' = CleanupClears(motionTimers, motionTimeoutRef)
    /\ heartbeat' = (isMotionActive /\ isMotionEnabled)
    /\ motionCalls' = << >>
    /\ motionEvent' = "render"
    /\ motionCleared' = Cancelled
    /\ UNCHANGED << isMotionActive, isMotionEnabled, timeoutDuration,
                    motionTimeoutRef, motionOver >>

\* a heartbeat that also rearms the local timeout
HeartbeatTick_Rearming ==
    /\ heartbeat
    /\ motionCalls' = << "detected" >>
    /\ motionEvent' = "heartbeat"
    /\ motionTimers' =
          ArmMotionTimeout(ClearMotionTimeout(motionTimers, motionTimeoutRef),
                           FreshMotionHandle, rendered.duration)
    /\ motionTimeoutRef' = FreshMotionHandle
    /\ motionCleared' = Cancelled
    /\ UNCHANGED << isMotionActive, isMotionEnabled, timeoutDuration,
                    rendered, heartbeat, motionOver >>

\* the heartbeat interval elapses: onMotionDetected()
HeartbeatTick ==
    /\ heartbeat
    /\ motionCalls' = << "detected" >>
    /\ motionEvent' = "heartbeat"
    /\ motionCleared' = {}
    /\ UNCHANGED << isMotionActive, isMotionEnabled, timeoutDuration,
                    motionTimeoutRef, motionTimers, rendered, heartbeat,
                    motionOver >>

\* from some moment on detectMotion finds no real motion any more
MotionEnds ==
    /\ ~motionOver
    /\ motionOver' = TRUE
    /\ motionCalls' = << >>
    /\ motionEvent' = "over"
    /\ motionCleared' = {}
    /\ UNCHANGED << isMotionActive, isMotionEnabled, timeoutDuration,
                    motionTimeoutRef, motionTimers, rendered, heartbeat >>

(***************************************************************************)
(* detectMotion: the frame difference and its three filters.               *)
(*                                                                         *)
(* A frame is one of a family of images: frame n has its first n pixels    *)
(* white and the others black, so two frames differ, by more than the      *)
(* pixel-intensity threshold, in |n - n'| pixels.  motionPercentage is     *)
(* kept exact, as a whole number of units of 1/PercentUnits percent.       *)
(***************************************************************************)
CanvasWidth == 320
CanvasHeight == 240
PercentUnits == 3840     \* units in one percent: one pixel is 5 units
HistoryWindow == 5       \* motionHistoryRef keeps the last 5 values
BaselineWindow == 30     \* baselineRef keeps the last 30 low-motion values
VelocityWindow == 5      \* motionVelocityRef keeps the last 5 changes
TemporalQuorum == 3      \* recentMotionCount >= 3
BaselineFactor == 3      \* baseline * 3
OutrightFactor == 2      \* adaptiveThreshold * 2

LowMotion == (3 * PercentUnits) \div 10        \* 0.3 %
MinThreshold == PercentUnits \div 2            \* 0.5 %
DefaultBaseline == PercentUnits \div 5         \* 0.2 %
VelocityFloor == PercentUnits \div 10          \* 0.1 %

NoFrame == -1      \* previousFrameRef.current === null
Frames == { 0, 154, 577, 1000 }

Abs(x) == IF x >= 0 THEN x ELSE -x

RECURSIVE SumSeq(_)
SumSeq(w) == IF w = << >> THEN 0 ELSE Head(w) + SumSeq(Tail(w))

\* the loop over the pixels: the pixels whose average channel difference
\* exceeds config.motionThreshold
DiffCount(prev, cur) == Abs(cur - prev)

\* (diffCount / totalPixels) * 100
MotionPercentage(prev, cur) ==
    (DiffCount(prev, cur) * 100 * PercentUnits) \div (CanvasWidth * CanvasHeight)

\* a window that is never trimmed
Push_Unbounded(w, x, cap) == Append(w, x)

\* push(x); if (length > cap) shift()
Push(w, x, cap) ==
    IF Len(w) + 1 > cap THEN Tail(Append(w, x)) ELSE Append(w, x)

\* x > k * adaptiveThreshold, where adaptiveThreshold is
\* Math.max(0.5, baseline * 3) and baseline is the mean of the window b,
\* or 0.2 when b is empty
Exceeds(x, k, b) ==
    /\ x > k * MinThreshold
    /\ IF Len(b) > 0
       THEN x * Len(b) > k * BaselineFactor * SumSeq(b)
       ELSE x > k * BaselineFactor * DefaultBaseline

\* motionHistoryRef.current.filter(m => m > adaptiveThreshold).length
RecentMotionCount(h, b) ==
    Cardinality({ i \in DOMAIN h : Exceeds(h[i], 1, b) })

\* avgVelocity > 0.1 || motionPercentage > adaptiveThreshold * 2
HasSignificantVelocity(v, m, b) ==
    \/ Len(v) > 0 /\ SumSeq(v) > VelocityFloor * Len(v)
    \/ Exceeds(m, OutrightFactor, b)

\* a classification that does not look at the current value
IsRealMotion_TwoFilters(h, b, v, m) ==
    /\ RecentMotionCount(h, b) >= TemporalQuorum
    /\ HasSignificantVelocity(v, m, b)

\* isRealMotion, on the windows as updated by this sample
IsRealMotion(h, b, v, m) ==
    /\ RecentMotionCount(h, b) >= TemporalQuorum
    /\ HasSignificantVelocity(v, m, b)
    /\ Exceeds(m, 1, b)

\* detectMotion on a frame, from the detector state st: the state after it
\* and what it returns
DetectStep(st, frame) ==
    IF st.previousFrame = NoFrame
    THEN [st EXCEPT !.previousFrame = frame, !.verdict = FALSE]
    ELSE LET m == MotionPercentage(st.previousFrame, frame)
             h == Push(st.motionHistory, m, HistoryWindow)
             b == IF m < LowMotion THEN Push(st.baseline, m, BaselineWindow)
                  ELSE st.baseline
             v == IF Len(h) >= 2
                  THEN Push(st.motionVelocity, Abs(h[Len(h)] - h[Len(h) - 1]),
                            VelocityWindow)
                  ELSE st.motionVelocity
         IN  [previousFrame |-> frame, motionHistory |-> h, baseline |-> b,
              motionVelocity |-> v, fed |-> Append(st.fed, m),
              verdict |-> IsRealMotion(h, b, v, m)]

\* the detector of a hook that has sampled nothing yet
FreshDetector ==
    [previousFrame |-> NoFrame, motionHistory |-> << >>, baseline |-> << >>,
     motionVelocity |-> << >>, fed |-> << >>, verdict |-> FALSE]

RECURSIVE RunDetect(_, _)
RunDetect(st, frames) ==
    IF frames = << >> THEN st
    ELSE RunDetect(DetectStep(st, Head(frames)), Tail(frames))

\* A quiet scene watched for a while: six identical frames, then a flicker
\* of 154 pixels on every sample, until the baseline window is full.
QuietScene ==
    [i \in 1..(BaselineWindow + 1) |->
        IF i <= 6 THEN 0 ELSE IF i % 2 = 1 THEN 154 ELSE 0]

Detector ==
    [previousFrame |-> previousFrame, motionHistory |-> motionHistory,
     baseline |-> baseline, motionVelocity |-> motionVelocity, fed |-> fed,
     verdict |-> verdict]

SetDetector(st) ==
    /\ previousFrame' = st.previousFrame
    /\ motionHistory' = st.motionHistory
    /\ baseline' = st.baseline
    /\ motionVelocity' = st.motionVelocity
    /\ fed' = st.fed
    /\ verdict' = st.verdict

\* detectMotion samples the frame the camera shows
DetectMotion(frame) ==
    /\ samples < MaxSamples
    /\ samples' = samples + 1
    /\ SetDetector(DetectStep(Detector, frame))

NextDetect ==
    \E frame \in Frames :
        DetectMotion(frame)
           /\ UNCHANGED << serverVars, meshVars, portalVars, motionVars, viewVars >>

\* the hook starts with empty windows; the run starts there or after the
\* hook has watched the quiet scene
InitDetect ==
    /\ \E st \in { FreshDetector, RunDetect(FreshDetector, QuietScene) } :
          /\ previousFrame = st.previousFrame
          /\ motionHistory = st.motionHistory
          /\ baseline = st.baseline
          /\ motionVelocity = st.motionVelocity
          /\ fed = st.fed
          /\ verdict = st.verdict
    /\ samples = 0

InitFreshDetect ==
    /\ previousFrame = NoFrame
    /\ motionHistory = << >>
    /\ baseline = << >>
    /\ motionVelocity = << >>
    /\ fed = << >>
    /\ verdict = FALSE
    /\ samples = 0

MotionKeeps ==
    UNCHANGED << serverVars, meshVars, portalVars, detectVars, viewVars >>

\* the animation frames keep sampling
Sample == \E real \in BOOLEAN : CheckMotion(real) /\ MotionKeeps

MotionExpire == \E t \in motionTimers : MotionTimeoutFires(t) /\ MotionKeeps

NextMotion ==
    \/ Sample
    \/ MotionExpire
    \/ MotionTick /\ MotionKeeps
    \/ ToggleMotion /\ MotionKeeps
    \/ \E d \in Durations : SetMotionTimeout(d) /\ MotionKeeps
    \/ Rerender /\ MotionKeeps
    \/ HeartbeatTick /\ MotionKeeps
    \/ MotionEnds /\ MotionKeeps

\* An animation frame whose sample is taken: detectMotion runs on the frame
\* and checkMotion acts on its verdict.  Samples are at least 100 ms apart,
\* so the render of the previous one is committed.
SampleFrame(frame) ==
    /\ rendered = Current
    /\ rendered.enabled
    /\ DetectMotion(frame)
    /\ CheckMotion(DetectStep(Detector, frame).verdict)

\* An animation frame on which detectMotion returns at once (less than
\* 100 ms since the last sample) or which finds detection disabled
IdleFrame == CheckMotion(FALSE) /\ UNCHANGED detectVars

InferrerKeeps == UNCHANGED << serverVars, meshVars, portalVars, viewVars >>

Frame ==
    \/ \E frame \in Frames : SampleFrame(frame) /\ InferrerKeeps
    \/ IdleFrame /\ InferrerKeeps

NextInferrer ==
    \/ Frame
    \/ MotionExpire
    \/ MotionTick /\ MotionKeeps
    \/ Rerender /\ MotionKeeps
    \/ HeartbeatTick /\ MotionKeeps
    \/ ToggleMotion /\ MotionKeeps

\* useState / useRef initial values and the first render
InitMotion ==
    /\ isMotionActive = FALSE
    /\ isMotionEnabled = TRUE
    /\ timeoutDuration = MotionTimeout
    /\ motionTimeoutRef = NoTimer
    /\ motionTimers = {}
    /\ rendered = [active |-> FALSE, enabled |-> TRUE,
                   duration |-> MotionTimeout]
    /\ heartbeat = FALSE
    /\ motionOver = FALSE
    /\ motionCalls = << >>
    /\ motionCleared = {}
    /\ motionEvent = "init"

\* no connection has received a PRESENCE_UPDATE
NoUpdate == [groupId |-> NoGroup, presentDevices |-> {}]

InitView == lastUpdate = [c \in Conns |-> NoUpdate]

InitClient == InitPortal /\ InitMotion /\ InitFreshDetect /\ InitView

InitHub ==
    /\ presentDevices = [d \in ServerDeviceIds |-> NoGroup]
    /\ presenceTimers = [d \in ServerDeviceIds |-> NoTimer]
    /\ timers = {}
    /\ emitted = << >>
    /\ dbGroups = {}
    /\ dbDevices = [d \in ServerDeviceIds |-> NoGroup]
    /\ deviceSockets = [d \in ServerDeviceIds |-> NoConn]
    /\ socketDevices = [c \in Conns |-> NoDevice]
    /\ open = {}
    /\ sent = << >>
    /\ lastEvent = Event("init", NoConn, NoDevice, TRUE)
    /\ lastCall = [d \in ServerDeviceIds |-> [kind |-> "none", groupId |-> NoGroup]]
    /\ sinceMark = [d \in ServerDeviceIds |-> 0]
    /\ marks = [d \in ServerDeviceIds |-> 0]
    /\ quiet = FALSE
    /\ scenario = [clock |-> 0, broadcasts |-> 0, first |-> NoDevice,
                   second |-> NoDevice]

\* new PresenceManager(presenceTimeout), index.ts
InitServer == InitHub /\ presenceTimeout = PresenceTimeout

InitHook ==
    /\ participants = {}
    /\ peerConnections = [q \in DeviceIds |-> NoPc]
    /\ pcs = [i \in PcIds |-> FreePc]
    /\ remoteStreams = {}
    /\ tasks = {}
    /\ meshSent = << >>
    /\ setup = [q \in DeviceIds |-> "none"]
    /\ meshEvent = [kind |-> "init", peer |-> NoDevice]

Init == InitServer /\ InitHook /\ InitClient /\ myDeviceId = << 1 >>

InitMesh == InitServer /\ InitHook /\ InitClient /\ myDeviceId \in DeviceIds

Next ==
    \/ \E c \in Conns : Connect(c) /\ UNCHANGED << pmObs, pmConfig, meshVars, clientVars >>
    \/ \E c \in Conns, d \in ServerDeviceIds, g \in GroupIds,
          gt \in BOOLEAN, dt \in BOOLEAN :
            HandleRegister(c, d, g, gt, dt) /\ UNCHANGED << pmObs, pmConfig, meshVars, clientVars >>
    \/ \E c \in Conns, d \in ServerDeviceIds :
            HandleMotionDetected(c, d) /\ UNCHANGED << pmObs, pmConfig, meshVars, clientVars >>
    \/ \E c \in Conns, d \in ServerDeviceIds :
            HandleMotionStopped(c, d) /\ UNCHANGED << pmObs, pmConfig, meshVars, clientVars >>
    \/ \E c \in Conns : HandleDisconnect(c) /\ UNCHANGED << pmObs, pmConfig, meshVars, clientVars >>
    \/ \E t \in timers : TimerFires(t) /\ UNCHANGED << pmObs, pmConfig, meshVars, clientVars >>
    \/ Tick /\ UNCHANGED << pmObs, pmConfig, meshVars, clientVars >>

\* useSignaling keeps the payload of the last PRESENCE_UPDATE it received;
\* a message reaches the socket it is sent to if that socket is connected
RECURSIVE Receive(_, _, _)
Receive(view, msgs, up) ==
    IF msgs = << >> THEN view
    ELSE LET m == Head(msgs)
             next == IF m.type = "presence_update" /\ m.sock \in up
                     THEN [view EXCEPT ![m.sock] = m.payload]
                     ELSE view
         IN Receive(next, Tail(msgs), up)

\* the messages of the step arrive; a connection that opens has received
\* nothing
Observe ==
    /\ lastUpdate' = Receive([c \in Conns |->
                                IF c \in open' \ open THEN NoUpdate
                                ELSE lastUpdate[c]],
                             sent', open')
    /\ UNCHANGED << pmObs, pmConfig, meshVars, portalVars, motionVars,
                    detectVars >>

\* The hub with the clients' view of the presence of their group.  Every
\* client behaves: a connection registers one device id and reports motion
\* for the device it registered, and the store does not fail.
NextView ==
    \/ \E c \in Conns : Connect(c) /\ Observe
    \/ \E c \in Conns, d \in ServerDeviceIds, g \in GroupIds :
          /\ socketDevices[c] \in { NoDevice, d }
          /\ HandleRegister(c, d, g, FALSE, FALSE) /\ Observe
    \/ \E c \in Conns, d \in ServerDeviceIds :
          /\ deviceSockets[d] = c /\ socketDevices[c] = d
          /\ HandleMotionDetected(c, d) /\ Observe
    \/ \E c \in Conns, d \in ServerDeviceIds :
          /\ deviceSockets[d] = c /\ socketDevices[c] = d
          /\ HandleMotionStopped(c, d) /\ Observe
    \/ \E c \in Conns : HandleDisconnect(c) /\ Observe
    \/ \E t \in timers : TimerFires(t) /\ Observe
    \/ Tick /\ Observe

\* The relay: clients connect, register, report motion, negotiate and leave.
NextRelay ==
    \/ \E c \in Conns : Connect(c) /\ UNCHANGED << pmObs, pmConfig, meshVars, clientVars >>
    \/ \E c \in Conns, d \in ServerDeviceIds, g \in GroupIds :
            HandleRegister(c, d, g, FALSE, FALSE) /\ UNCHANGED << pmObs, pmConfig, meshVars, clientVars >>
    \/ \E c \in Conns, d \in ServerDeviceIds :
            HandleMotionDetected(c, d) /\ UNCHANGED << pmObs, pmConfig, meshVars, clientVars >>
    \/ \E c \in Conns, from \in ServerDeviceIds, to \in ServerDeviceIds,
          sdp \in Sdps : HandleOffer(c, from, to, sdp) /\ UNCHANGED << pmObs, pmConfig, meshVars, clientVars >>
    \/ \E c \in Conns, from \in ServerDeviceIds, to \in ServerDeviceIds,
          sdp \in Sdps : HandleAnswer(c, from, to, sdp) /\ UNCHANGED << pmObs, pmConfig, meshVars, clientVars >>
    \/ \E c \in Conns, from \in ServerDeviceIds, to \in ServerDeviceIds,
          candidate \in Sdps :
            HandleIceCandidate(c, from, to, candidate) /\ UNCHANGED << pmObs, pmConfig, meshVars, clientVars >>
    \/ \E c \in Conns : HandleDisconnect(c) /\ UNCHANGED << pmObs, pmConfig, meshVars, clientVars >>

(***************************************************************************)
(* The two-device scenario: both devices register into one group, one      *)
(* reports motion at time 0 and the other ScenarioOffset later; nothing     *)
(* else happens but the passage of time.  One tick is one second.          *)
(***************************************************************************)
InitScenario ==
    /\ InitHub /\ InitHook /\ InitClient
    /\ myDeviceId = << 1 >> /\ presenceTimeout = ScenarioTtl

ScenarioKeeps ==
    UNCHANGED << lastCall, sinceMark, marks, quiet, pmConfig, meshVars, clientVars >>

\* the presence_changed events of the step are counted
Counted(scn) ==
    [scn EXCEPT !.broadcasts = @ + (IF emitted' # << >> THEN 1 ELSE 0)]

ScenarioConnect(c) ==
    /\ scenario.first = NoDevice
    /\ Connect(c)
    /\ UNCHANGED scenario /\ ScenarioKeeps

\* each device registers once, on its own connection, into the one group
ScenarioRegister(c, d, g) ==
    /\ scenario.first = NoDevice
    /\ socketDevices[c] = NoDevice
    /\ ~DeviceExists(dbDevices, d)
    /\ dbGroups \subseteq {g}
    /\ HandleRegister(c, d, g, FALSE, FALSE)
    /\ UNCHANGED scenario /\ ScenarioKeeps

ScenarioFirstMotion(c, d) ==
    /\ scenario.first = NoDevice
    /\ \A e \in ServerDeviceIds : deviceSockets[e] \in open
    /\ socketDevices[c] = d
    /\ HandleMotionDetected(c, d)
    /\ scenario' = Counted([scenario EXCEPT !.first = d])
    /\ ScenarioKeeps

ScenarioSecondMotion(c, d) ==
    /\ scenario.first \notin { NoDevice, d }
    /\ scenario.second = NoDevice
    /\ scenario.clock = ScenarioOffset
    /\ socketDevices[c] = d
    /\ HandleMotionDetected(c, d)
    /\ scenario' = Counted([scenario EXCEPT !.second = d])
    /\ ScenarioKeeps

ScenarioTick ==
    /\ scenario.first # NoDevice
    /\ scenario.clock = ScenarioOffset => scenario.second # NoDevice
    /\ Tick
    /\ scenario' = [scenario EXCEPT !.clock = @ + 1]
    /\ ScenarioKeeps

ScenarioExpire ==
    /\ \E t \in timers : TimerFires(t)
    /\ scenario' = Counted(scenario)
    /\ ScenarioKeeps

NextScenario ==
    \/ \E c \in Conns : ScenarioConnect(c)
    \/ \E c \in Conns, d \in ServerDeviceIds, g \in GroupIds :
          ScenarioRegister(c, d, g)
    \/ \E c \in Conns, d \in ServerDeviceIds : ScenarioFirstMotion(c, d)
    \/ \E c \in Conns, d \in ServerDeviceIds : ScenarioSecondMotion(c, d)
    \/ ScenarioTick
    \/ ScenarioExpire

SpecScenario == InitScenario /\ [][NextScenario]_vars

Spec == Init /\ [][Next]_vars

SpecPresence == Init /\ [][NextPresence]_vars

\* The runtime keeps running: time passes and a due timer callback is run.
SpecSoftState ==
    /\ Init
    /\ [][NextSoftState]_vars
    /\ WF_vars(TickPresence)
    /\ WF_vars(ExpireDue)

SpecRelay == Init /\ [][NextRelay]_vars

SpecMesh == InitMesh /\ [][NextMesh]_vars

SpecPortal == Init /\ [][NextPortal]_vars

SpecMotion == Init /\ [][NextMotion]_vars

\* a client whose detector is fresh or has watched the quiet scene
InitInferrer ==
    /\ InitServer /\ InitHook /\ InitPortal /\ InitMotion /\ InitDetect
    /\ InitView
    /\ myDeviceId = << 1 >>

SpecView == Init /\ [][NextView]_vars

SpecInferrer == InitInferrer /\ [][NextInferrer]_vars

SpecDetect == InitInferrer /\ [][NextDetect]_vars

\* The browser keeps running: animation frames are delivered, renders are
\* committed, time passes and a due timeout callback is run.
SpecMotionFair ==
    /\ Init
    /\ [][NextMotion]_vars
    /\ WF_vars(Sample)
    /\ WF_vars(Rerender /\ MotionKeeps)
    /\ WF_vars(MotionTick /\ MotionKeeps)
    /\ WF_vars(MotionExpire)

TypeOK ==
    /\ open \subseteq Conns
    /\ dbGroups \subseteq GroupIds
    /\ \A d \in ServerDeviceIds : deviceSockets[d] \in Conns \cup {NoConn}

(***************************************************************************)
(* Properties                                                              *)
(***************************************************************************)
PresentIds(g) == { dev.id : dev \in GetPresentDevicesInGroup(presentDevices, g) }

RouteKinds == { "offer", "answer", "ice_candidate" }

\* C1: getPresentDevicesInGroup(g) returns exactly the devices whose most
\* recent PresenceManager call was markPresent with a snapshot of group g and
\* whose timer has not fired since (a firing timer is recorded as the most
\* recent call).
C1_PresentSetIsLatestMarkPresent ==
    \A g \in GroupIds :
        PresentIds(g) = { d \in ServerDeviceIds :
                             /\ lastCall[d].kind = "markPresent"
                             /\ lastCall[d].groupId = g }

\* one device is present after markPresent while the timer of the other has
\* just fired and removed it
C1_Witness ==
    \E d, e \in ServerDeviceIds :
        /\ lastCall[d].kind = "markPresent"
        /\ MapHas(presentDevices, d)
        /\ lastCall[e].kind = "fired"
        /\ lastEvent.kind = "expire"
        /\ lastEvent.deviceId = e

\* C4 as stated, seen from one client: once no createOffer of the client is
\* in flight, the client has sent an OFFER to a peer of its roster exactly
\* when its own id sorts before the peer's.
C4_ExactlyOneOffers ==
    \A p \in participants \ {myDeviceId} :
        (\A t \in tasks : ~(t.kind = "createOffer" /\ t.peer = p))
           => (Precedes(myDeviceId, p) <=> setup[p] = "offered")

\* C4: a client sends an OFFER only to a peer that its own id sorts before,
\* it starts no offer to a roster peer whose id sorts before its own, and for
\* every roster peer that its id sorts before it has started an offer, which
\* is pending, sent, or abandoned (createOffer or setLocalDescription
\* rejected, or the connection was closed under it).
C4_OnlyTheSmallerInitiates ==
    /\ \A i \in DOMAIN meshSent :
          meshSent[i].type = "offer"
             => /\ meshSent[i].from = myDeviceId
                /\ Precedes(myDeviceId, meshSent[i].to)
    /\ \A t \in tasks :
          t.kind = "createOffer" => Precedes(myDeviceId, t.peer)
    /\ \A p \in participants \ {myDeviceId} :
          /\ Precedes(p, myDeviceId) => setup[p] = "none"
          /\ Precedes(myDeviceId, p) =>
                setup[p] \in { "pending", "offered", "failed" }

\* the middle id has just sent its OFFER to the larger id while the smaller
\* id is in the roster and was offered nothing
C4_Witness ==
    /\ meshEvent.kind = "resolved"
    /\ meshSent = << Message("offer", myDeviceId, meshEvent.peer) >>
    /\ setup[meshEvent.peer] = "offered"
    /\ \E q \in participants :
          Precedes(q, myDeviceId) /\ setup[q] = "none"

\* C5: a step emits presence_changed exactly once, for the group of the
\* entry, when a device goes from absent to present or from present to
\* absent, and emits nothing when no device changes (a markPresent on a
\* present device, a markNotPresent on an absent one).
C5_EmitOncePerTransition ==
    [][ LET changed == { d \in ServerDeviceIds :
                            MapHas(presentDevices, d) # MapHas(presentDevices', d) }
        IN /\ \A d \in changed :
                emitted' = << IF MapHas(presentDevices', d)
                              THEN presentDevices'[d] ELSE presentDevices[d] >>
           /\ changed = {} => emitted' = << >> ]_vars

\* a refresh of a present device has just run and emitted nothing
C5_Witness ==
    /\ lastEvent.kind = "markPresent"
    /\ marks[lastEvent.deviceId] = 2
    /\ emitted = << >>

\* C6: a device never has two armed timers, its armed timer is the one of its
\* most recent markPresent (it is due a full PresenceTimeout after that
\* call), and an expiry happens exactly PresenceTimeout after that call.
C6_SingleTimerFullDuration ==
    /\ \A d \in ServerDeviceIds :
          Cardinality({ t \in timers : t.deviceId = d }) <= 1
    /\ \A t \in timers :
          /\ lastCall[t.deviceId].kind = "markPresent"
          /\ t.remaining + sinceMark[t.deviceId] = PresenceTimeout
    /\ lastEvent.kind = "expire" =>
          sinceMark[lastEvent.deviceId] = PresenceTimeout

\* a device marked present twice in one presence has just expired
C6_Witness ==
    /\ lastEvent.kind = "expire"
    /\ marks[lastEvent.deviceId] = 2
    /\ ~MapHas(presentDevices, lastEvent.deviceId)

\* C2: the disconnect of connection c changes the binding of no device that
\* is bound to a different connection; in particular a device that registered
\* on c and then on another connection stays bound to the other connection.
C2_StaleDisconnectKeepsBinding ==
    [][ \A d \in ServerDeviceIds :
          ( /\ lastEvent'.kind = "disconnect"
            /\ deviceSockets[d] # NoConn
            /\ deviceSockets[d] # lastEvent'.sock )
          => deviceSockets'[d] = deviceSockets[d] ]_vars

\* the connection that disconnected had registered a device which is now
\* bound to another, still open connection
C2_Witness ==
    /\ lastEvent.kind = "disconnect"
    /\ lastEvent.deviceId # NoDevice
    /\ deviceSockets[lastEvent.deviceId] \in open \ { lastEvent.sock }

\* C3: a successful REGISTER of d on c leaves d bound to c, whatever d was
\* bound to, and a relayed message for d is emitted to the connection
\* deviceSockets[d] only.
C3_RegisterSupersedes ==
    /\ (lastEvent.kind = "register" /\ lastEvent.ok)
          => deviceSockets[lastEvent.deviceId] = lastEvent.sock
    /\ lastEvent.kind \in RouteKinds
          => \A i \in DOMAIN sent :
                sent[i].type = lastEvent.kind
                   => sent[i].sock = deviceSockets[lastEvent.deviceId]

\* an offer was relayed to a device that an older, still open connection had
\* registered before
C3_Witness ==
    /\ lastEvent.kind = "offer"
    /\ lastEvent.ok
    /\ \E c \in open : /\ socketDevices[c] = lastEvent.deviceId
                       /\ c # deviceSockets[lastEvent.deviceId]
    /\ Len(Delivered) = 1

\* C7: an OFFER or ANSWER for a device without a binding is answered with
\* ERROR PEER_NOT_FOUND on the sending connection and nothing else is sent;
\* the presence registry and the binding maps stay as they are.
C7_UnboundNegotiationIsError ==
    [][ ( /\ lastEvent'.kind \in { "offer", "answer" }
          /\ deviceSockets[lastEvent'.deviceId] = NoConn )
        => /\ sent' = << [sock |-> lastEvent'.sock, type |-> "error",
                          payload |-> [code |-> "PEER_NOT_FOUND"]] >>
           /\ UNCHANGED << presentDevices, presenceTimers, timers,
                           deviceSockets, socketDevices >> ]_vars

\* an offer for an unbound device while another device is present and bound
C7_Witness ==
    /\ lastEvent.kind = "offer"
    /\ deviceSockets[lastEvent.deviceId] = NoConn
    /\ \E d \in ServerDeviceIds : MapHas(presentDevices, d) /\ deviceSockets[d] # NoConn
    /\ Len(sent) = 1

\* C8: an ICE_CANDIDATE for a device without a binding sends nothing to
\* anyone and changes no state of the hub, the registry or the store.
C8_UnboundCandidateIsDropped ==
    [][ ( /\ lastEvent'.kind = "ice_candidate"
          /\ deviceSockets[lastEvent'.deviceId] = NoConn )
        => /\ sent' = << >>
           /\ UNCHANGED << presentDevices, presenceTimers, timers, dbGroups,
                           dbDevices, deviceSockets, socketDevices, open >> ]_vars

\* a candidate for an unbound device while another device is present and bound
C8_Witness ==
    /\ lastEvent.kind = "ice_candidate"
    /\ deviceSockets[lastEvent.deviceId] = NoConn
    /\ \E d \in ServerDeviceIds : MapHas(presentDevices, d) /\ deviceSockets[d] # NoConn
    /\ sent = << >>

\* C9: an OFFER, ANSWER or ICE_CANDIDATE for a bound device is delivered,
\* with its type and its from / to / body, to the connection bound to
\* payload.to and to no other connection.
C9_RelayedToBoundConnection ==
    (lastEvent.kind \in RouteKinds /\ deviceSockets[lastEvent.deviceId] # NoConn)
       => Delivered = << [sock |-> deviceSockets[lastEvent.deviceId],
                          type |-> lastEvent.kind,
                          payload |-> [from |-> lastEvent.from,
                                       to |-> lastEvent.deviceId,
                                       body |-> lastEvent.body]] >>

\* C10: a successful REGISTER(deviceId, groupId) on c leaves deviceId bound
\* to c and sends to c, in this order, REGISTER_ACK and a PRESENCE_UPDATE
\* that carries the devices present in groupId.
C10_RegisterAckThenSnapshot ==
    (lastEvent.kind = "register" /\ lastEvent.ok)
       => /\ deviceSockets[lastEvent.deviceId] = lastEvent.sock
          /\ socketDevices[lastEvent.sock] = lastEvent.deviceId
          /\ Len(sent) = 2
          /\ sent[1].sock = lastEvent.sock
          /\ sent[1].type = "register_ack"
          /\ sent[1].payload.deviceId = lastEvent.deviceId
          /\ sent[1].payload.groupId = lastEvent.groupId
          /\ sent[2].sock = lastEvent.sock
          /\ sent[2].type = "presence_update"
          /\ sent[2].payload.groupId = lastEvent.groupId
          /\ sent[2].payload.presentDevices =
                { [id |-> d, groupId |-> lastEvent.groupId] :
                    d \in { e \in ServerDeviceIds :
                               presentDevices[e] = lastEvent.groupId } }
          /\ Delivered = sent

\* a device registers into a group while one device is present in that group
\* and another is present in a different group
C10_Witness ==
    /\ lastEvent.kind = "register"
    /\ lastEvent.ok
    /\ \E d, e \in ServerDeviceIds :
          /\ presentDevices[d] = lastEvent.groupId
          /\ presentDevices[e] \notin { NoGroup, lastEvent.groupId }

\* the PRESENCE_UPDATE messages of a step that were emitted to socket c
UpdatesTo(msgs, c) ==
    Cardinality({ i \in DOMAIN msgs :
                     msgs[i].type = "presence_update" /\ msgs[i].sock = c })

\* C11: a step that emits presence_changed(g) sends, for every device id of
\* group g that has a binding, one PRESENCE_UPDATE of g with the present set
\* to the bound socket, and nothing else; a device id of g without a binding
\* gets nothing.  No backlog exists: a step without a presence change sends
\* no PRESENCE_UPDATE, except a REGISTER, which sends the registering socket
\* one snapshot of the present set of that moment.
C11_BroadcastToBoundOnly ==
    [][ /\ emitted' # << >> =>
            LET g == emitted'[1]
                bound == { d \in ServerDeviceIds :
                              dbDevices[d] = g /\ deviceSockets[d] # NoConn }
            IN /\ Len(sent') = Cardinality(bound)
               /\ \A i \in DOMAIN sent' :
                     /\ sent'[i].type = "presence_update"
                     /\ sent'[i].payload.groupId = g
                     /\ sent'[i].payload.presentDevices =
                           { [id |-> d, groupId |-> g] :
                               d \in { e \in ServerDeviceIds :
                                          presentDevices'[e] = g } }
               /\ \A c \in Conns :
                     UpdatesTo(sent', c) =
                        Cardinality({ d \in bound : deviceSockets[d] = c })
        /\ emitted' = << >> =>
              \A c \in Conns :
                 UpdatesTo(sent', c) =
                    IF lastEvent'.kind = "register" /\ lastEvent'.ok
                       /\ lastEvent'.sock = c
                    THEN 1 ELSE 0 ]_vars

\* a presence change was broadcast in a group with one bound device, which
\* got the update, and one device without a binding, which got nothing
C11_Witness ==
    /\ emitted # << >>
    /\ Len(sent) = 1
    /\ \E d, e \in ServerDeviceIds :
          /\ dbDevices[d] = emitted[1] /\ deviceSockets[d] = sent[1].sock
          /\ dbDevices[e] = emitted[1] /\ deviceSockets[e] = NoConn
          /\ lastEvent.kind # "disconnect"

\* C12 as stated: when a connection disconnects, every device bound to it
\* loses its binding and its presence entry, and if it was present the
\* presence change of its group is broadcast.
C12_DisconnectClearsBoundDevice ==
    [][ \A d \in ServerDeviceIds :
          (lastEvent'.kind = "disconnect" /\ deviceSockets[d] = lastEvent'.sock)
          => /\ deviceSockets'[d] = NoConn
             /\ ~MapHas(presentDevices', d)
             /\ MapHas(presentDevices, d) =>
                   /\ emitted' = << presentDevices[d] >>
                   /\ sent' = HandlePresenceChange(dbGroups, dbDevices,
                                  deviceSockets, presentDevices[d],
                                  presentDevices') ]_vars

\* C13: the devices that hold a live timer are exactly the devices in the
\* present map, no device holds more than one live timer, and the handle a
\* device has in presenceTimers is the handle of its live timer.
C13_LiveTimerIffPresent ==
    /\ { t.deviceId : t \in timers } =
          { d \in ServerDeviceIds : MapHas(presentDevices, d) }
    /\ \A t, u \in timers : t.deviceId = u.deviceId => t = u
    /\ \A d \in ServerDeviceIds :
          presenceTimers[d] # NoTimer <=>
             \E t \in timers : t.deviceId = d /\ t.handle = presenceTimers[d]

\* after a refresh of one device and an explicit markNotPresent of the other,
\* the first holds its timer and the second holds none
C13_Witness ==
    /\ lastEvent.kind = "markNotPresent"
    /\ lastCall[lastEvent.deviceId].kind = "markNotPresent"
    /\ \E d \in ServerDeviceIds :
          /\ marks[d] = 2 /\ MapHas(presentDevices, d)
          /\ \E t \in timers : t.deviceId = d
    /\ Cardinality(timers) = 1

\* C14: once no markPresent and no markNotPresent is called any more, every
\* device that is present is removed by the callback of its own timer, and
\* that expiry emits presence_changed for the group of its entry.
C14_PresenceExpiresByTimer ==
    \A d \in ServerDeviceIds, g \in GroupIds :
        (quiet /\ presentDevices[d] = g)
           ~> ( /\ lastEvent.kind = "expire"
                /\ lastEvent.deviceId = d
                /\ ~MapHas(presentDevices, d)
                /\ emitted = << g >> )

\* the callers are silent and the timer of the last present device has fired
C14_Witness ==
    /\ quiet
    /\ lastEvent.kind = "expire"
    /\ emitted # << >>
    /\ lastCall[lastEvent.deviceId].kind = "fired"
    /\ \A d \in ServerDeviceIds : ~MapHas(presentDevices, d)

\* a broadcast of the present set ids to both devices of the scenario
ScenarioBroadcast(g, ids) ==
    /\ Len(sent) = 2
    /\ \A i \in DOMAIN sent :
          /\ sent[i].type = "presence_update"
          /\ sent[i].payload.groupId = g
          /\ { dev.id : dev \in sent[i].payload.presentDevices } = ids
    /\ { sent[i].sock : i \in DOMAIN sent } =
          { deviceSockets[d] : d \in ServerDeviceIds }

\* C15: with A reporting motion at 0 and B at ScenarioOffset, right after
\* B's report the present set is {A, B} and two broadcasts have occurred; A
\* is present up to ScenarioTtl and expires then, B is present up to
\* ScenarioTtl + ScenarioOffset and expires then, each expiry broadcasts the
\* remaining present set, and after the fourth broadcast the set is empty.
C15_TwoDeviceTimeline ==
    LET A == scenario.first
        B == scenario.second
        now == scenario.clock
        g == dbDevices[A]
    IN A # NoDevice =>
         /\ (B # NoDevice /\ now = ScenarioOffset) =>
               /\ PresentIds(g) = { A, B }
               /\ scenario.broadcasts = 2
         /\ now < ScenarioTtl => MapHas(presentDevices, A)
         /\ MapHas(presentDevices, A) => now <= ScenarioTtl
         /\ B # NoDevice =>
               /\ now < ScenarioTtl + ScenarioOffset => MapHas(presentDevices, B)
               /\ MapHas(presentDevices, B) => now <= ScenarioTtl + ScenarioOffset
         /\ lastEvent.kind = "motion_detected" =>
               ScenarioBroadcast(g, IF B = NoDevice THEN { A } ELSE { A, B })
         /\ lastEvent.kind = "expire" =>
               \/ /\ lastEvent.deviceId = A
                  /\ now = ScenarioTtl
                  /\ scenario.broadcasts = 3
                  /\ ScenarioBroadcast(g, { B })
               \/ /\ lastEvent.deviceId = B
                  /\ now = ScenarioTtl + ScenarioOffset
                  /\ scenario.broadcasts = 4
                  /\ ScenarioBroadcast(g, {})
         /\ scenario.broadcasts <= 4
         /\ scenario.broadcasts = 4 => \A h \in GroupIds : PresentIds(h) = {}

\* the second device has just expired, ScenarioTtl after its report
C15_Witness ==
    /\ lastEvent.kind = "expire"
    /\ lastEvent.deviceId = scenario.second
    /\ scenario.clock = ScenarioTtl + ScenarioOffset
    /\ scenario.broadcasts = 4
    /\ \A d \in ServerDeviceIds : ~MapHas(presentDevices, d)

\* the devices whose presence a step changes
PresenceFlips == { d \in ServerDeviceIds :
                     MapHas(presentDevices, d) # MapHas(presentDevices', d) }

\* C16: the observer of the hub handles a presence_changed inside the step
\* that processes the triggering event, so events are observed one by one in
\* processing order, each against the registry as that event left it; and
\* the processed event alone decides the present flag of its device: a
\* MOTION_DETECTED of a known device leaves it present, a MOTION_STOPPED or
\* a timer expiry leaves it absent, a disconnect leaves the device of the
\* socket absent when the socket owned its binding, and no step changes the
\* flag of any other device.
C16_ObservedInProcessingOrder ==
    [][ LET d == lastEvent'.deviceId
            kind == lastEvent'.kind
        IN /\ PresenceFlips \subseteq { d }
           /\ (kind = "motion_detected" /\ lastEvent'.ok)
                 => MapHas(presentDevices', d)
           /\ (kind \in { "motion_stopped", "expire" } /\ d \in ServerDeviceIds)
                 => ~MapHas(presentDevices', d)
           /\ (kind = "disconnect" /\ d # NoDevice
                 /\ deviceSockets[d] = lastEvent'.sock)
                 => ~MapHas(presentDevices', d)
           /\ kind \notin { "motion_detected", "motion_stopped", "expire",
                            "disconnect" } => PresenceFlips = {}
           /\ (PresenceFlips # {}) <=> (emitted' # << >>)
           /\ PresenceFlips # {} =>
                 /\ emitted' = << IF MapHas(presentDevices', d)
                                  THEN presentDevices'[d] ELSE presentDevices[d] >>
                 /\ \A i \in DOMAIN sent' :
                       /\ sent'[i].type = "presence_update"
                       /\ sent'[i].payload.groupId = emitted'[1]
                       /\ { dev.id : dev \in sent'[i].payload.presentDevices } =
                             { e \in ServerDeviceIds :
                                  presentDevices'[e] = emitted'[1] } ]_vars

\* a MOTION_STOPPED took a device out of a group in which the other device
\* stays present, and the observer broadcast the remaining set
C16_Witness ==
    /\ lastEvent.kind = "motion_stopped"
    /\ emitted # << >>
    /\ Len(sent) >= 1
    /\ \E e \in ServerDeviceIds :
          /\ presentDevices[e] = emitted[1]
          /\ \A i \in DOMAIN sent :
                { dev.id : dev \in sent[i].payload.presentDevices } = { e }

\* the store failed in the REGISTER just handled: a row could not be
\* created, or the group of an existing device row could not be updated
StoreFailedInRegister ==
    /\ lastEvent'.kind = "register"
    /\ \/ ~lastEvent'.ok
       \/ dbDevices'[lastEvent'.deviceId] # lastEvent'.groupId

\* C17 as stated: a REGISTER during which the store fails is answered with
\* one ERROR on the registering connection, binds nothing, leaves bindings
\* and presence as they are and leaves the connection open.
C17_StoreFailureIsError ==
    [][ StoreFailedInRegister =>
          /\ Len(sent') = 1
          /\ sent'[1].type = "error"
          /\ sent'[1].sock = lastEvent'.sock
          /\ UNCHANGED << deviceSockets, socketDevices, presentDevices,
                          presenceTimers, timers, open >>
          /\ lastEvent'.sock \in open' ]_vars

\* C18 as stated: the client holds a join credential, and so is in the
\* shared call, only while it is itself motion-active and the presence list
\* it last received names at least two devices.
C18_InCallOnlyWhileActiveAndQuorate ==
    token # NoToken =>
        /\ portalMotionActive
        /\ Cardinality(portalPresent) >= QuorumSize

\* the number of devices of group g in the presence registry pd
PresentCount(pd, g) == Cardinality(GetPresentDevicesInGroup(pd, g))

\* the present set of some group reaches QuorumSize or falls below it
QuorumCrossed ==
    \E g \in GroupIds :
        (PresentCount(presentDevices, g) >= QuorumSize)
            # (PresentCount(presentDevices', g) >= QuorumSize)

C20_ActiveEventuallyStops ==
    /\ [](isMotionActive /\ isMotionEnabled /\ motionOver
            => motionTimers # {})
    /\ (isMotionActive /\ isMotionEnabled /\ motionOver)
          ~> (~isMotionActive /\ motionCalls = << "stopped" >>)

\* C21: detection is never disabled with the inferrer active; a toggleMotion
\* while enabled and active fires onStopped in that call, clears the active
\* state and leaves no local timeout pending; and while detection is
\* disabled no timeout is pending, so none fires a second onStopped.
C21_DisabledNeverActive ==
    /\ [](~isMotionEnabled => ~isMotionActive)
    /\ [](~isMotionEnabled => motionTimers = {})
    /\ [][ (motionEvent' = "toggle" /\ isMotionEnabled /\ isMotionActive)
              => /\ motionCalls' = << "stopped" >>
                 /\ ~isMotionActive'
                 /\ ~isMotionEnabled'
                 /\ motionTimers' = {} ]_vars

\* detection was switched off while the inferrer was active with its
\* timeout pending: onStopped was fired and the timeout was cancelled
C21_Witness ==
    /\ motionEvent = "toggle"
    /\ rendered.active /\ rendered.enabled
    /\ ~isMotionEnabled /\ ~isMotionActive
    /\ motionCalls = << "stopped" >>
    /\ motionCleared # {}
    /\ motionTimers = {}

\* the last n entries of a sequence
LastN(w, n) == SubSeq(w, IF Len(w) > n THEN Len(w) - n + 1 ELSE 1, Len(w))

\* the absolute changes between consecutive entries
Changes(w) == [i \in 1..(Len(w) - 1) |-> Abs(w[i + 1] - w[i])]

\* a sample was taken in the step
Sampled == samples' = samples + 1

\* at least 3 of the last 5 sampled frames differ from their predecessor in
\* more than 0.1 % of the pixels, and the value changes by more than 0.1 %
\* per frame on average
LooseRun ==
    LET recent == LastN(fed, HistoryWindow)
        moves == Changes(recent)
    IN  /\ Len(recent) = HistoryWindow
        /\ Cardinality({ i \in DOMAIN recent : recent[i] > PercentUnits \div 10 })
              >= TemporalQuorum
        /\ SumSeq(moves) * 10 > PercentUnits * Len(moves)

C24_HeartbeatLeavesTimeout ==
    [][ motionEvent' = "heartbeat"
          => /\ motionCalls' = << "detected" >>
             /\ motionCleared' = {}
             /\ UNCHANGED << motionTimers, motionTimeoutRef, isMotionActive,
                             isMotionEnabled, timeoutDuration >> ]_vars

\* a heartbeat has just fired while the local timeout was due: the timeout
\* is still due
C24_Witness ==
    /\ motionEvent = "heartbeat"
    /\ motionCalls = << "detected" >>
    /\ isMotionActive
    /\ \E t \in motionTimers : t.handle = motionTimeoutRef /\ t.remaining = 0

\* C25: a sampled frame that is bit-identical to the frame sampled before
\* it has motionPercentage 0, is not classified as real motion whatever the
\* windows hold, fires no onDetected and does not make the inferrer active.
C25_IdenticalFrameIsStill ==
    [][ (Sampled /\ previousFrame # NoFrame /\ previousFrame' = previousFrame)
          => /\ fed' = Append(fed, 0)
             /\ ~verdict'
             /\ motionCalls' = << >>
             /\ isMotionActive' = isMotionActive ]_vars

\* an identical frame was sampled while the windows were full of motion:
\* the temporal and the velocity filter pass, the sample is not real motion
C25_Witness ==
    /\ samples > 0
    /\ fed # << >>
    /\ fed[Len(fed)] = 0
    /\ ~verdict
    /\ motionCalls = << >>
    /\ RecentMotionCount(motionHistory, baseline) >= TemporalQuorum
    /\ HasSignificantVelocity(motionVelocity, 0, baseline)

\* the sampled values below 0.3 %, oldest first
LowSamples == SelectSeq(fed, LAMBDA m : m < LowMotion)

\* x exceeds k times max(0.5, 3 x mean of w); an empty w has no mean and
\* leaves the floor of 0.5 alone
AboveStated(x, k, w) ==
    /\ x > k * MinThreshold
    /\ Len(w) > 0 => x * Len(w) > k * BaselineFactor * SumSeq(w)

\* as AboveStated, with a mean of 0.2 for an empty w
AboveAmended(x, k, w) ==
    /\ x > k * MinThreshold
    /\ IF Len(w) > 0 THEN x * Len(w) > k * BaselineFactor * SumSeq(w)
       ELSE x > k * BaselineFactor * DefaultBaseline

\* The three filters read off the whole record of sampled values: the last
\* 5 values, the last 30 low values and the last 5 changes.
StatedReal ==
    LET m == fed[Len(fed)]
        recent == LastN(fed, HistoryWindow)
        lows == LastN(LowSamples, BaselineWindow)
        moves == LastN(Changes(fed), VelocityWindow)
    IN  /\ Cardinality({ i \in DOMAIN recent : AboveStated(recent[i], 1, lows) })
              >= TemporalQuorum
        /\ AboveStated(m, 1, lows)
        /\ \/ Len(moves) > 0 /\ SumSeq(moves) > VelocityFloor * Len(moves)
           \/ AboveStated(m, OutrightFactor, lows)

AmendedReal ==
    LET m == fed[Len(fed)]
        recent == LastN(fed, HistoryWindow)
        lows == LastN(LowSamples, BaselineWindow)
        moves == LastN(Changes(fed), VelocityWindow)
    IN  /\ Cardinality({ i \in DOMAIN recent : AboveAmended(recent[i], 1, lows) })
              >= TemporalQuorum
        /\ AboveAmended(m, 1, lows)
        /\ \/ Len(moves) > 0 /\ SumSeq(moves) > VelocityFloor * Len(moves)
           \/ AboveAmended(m, OutrightFactor, lows)

\* C26 as stated: a sample is classified as real motion exactly when the
\* three filters hold with adaptiveThreshold = max(0.5, 3 x mean of the
\* last up-to-30 samples below 0.3).
C26_RealIffThreeFilters ==
    [][ (Sampled /\ previousFrame # NoFrame) => (verdict' = StatedReal') ]_vars

\* C26: a sample is classified as real motion exactly when the three
\* filters hold, where the mean of the low samples counts as 0.2 while there
\* is no low sample yet (so the threshold is 0.6 then).
C26_RealIffThreeFiltersWithDefault ==
    [][ (Sampled /\ previousFrame # NoFrame) => (verdict' = AmendedReal') ]_vars

\* a sample classified as real motion after more than 30 low samples and
\* more than 5 samples: every window has been trimmed
C26_Witness ==
    /\ samples > 0
    /\ verdict
    /\ Len(LowSamples) > BaselineWindow
    /\ Len(baseline) = BaselineWindow
    /\ Len(motionHistory) = HistoryWindow
    /\ Len(motionVelocity) = VelocityWindow

\* the connections of a peer that have been created and not closed
OpenFor(q) == { i \in PcIds : pcs[i].state = "open" /\ pcs[i].peer = q }

\* C28: for every remote peer id at most one peer connection is open, and
\* every open connection is the one the map holds under its peer id; an
\* OFFER from a peer that already has a connection leaves no earlier
\* connection open outside the map.
C28_OneTrackedConnectionPerPeer ==
    /\ \A q \in DeviceIds : Cardinality(OpenFor(q)) <= 1
    /\ \A i \in PcIds :
          pcs[i].state = "open" => peerConnections[pcs[i].peer] = i

\* the reconciliation effect has just run
Reconciled == meshEvent'.kind = "participants"

\* C27: after the roster changes, every peer id that is no longer in the
\* roster has no entry in the peer-connection map, no entry in the
\* remote-stream map, and no connection that is still open.
C27_RemovedPeersAreTornDown ==
    [][Reconciled =>
          \A q \in (participants \ participants') \ {myDeviceId} :
             /\ peerConnections'[q] = NoPc
             /\ q \notin remoteStreams'
             /\ OpenFor(q)' = {}]_vars

\* the connection the continuation t holds was closed while t was awaiting
TornDown(t) == pcs[t.pc].state = "closed"

\* the map holds under peer q, after the step, the connection it held
\* before it, as it was
KeepsCurrent(q) ==
    LET before == peerConnections[q]
        after == peerConnections'[q]
    IN before # NoPc => /\ after # NoPc
                        /\ pcs'[after] = pcs[before]

\* C29: when the connection of a peer has been torn down while createOffer,
\* handleOffer or handleAnswer was awaiting, the continuation applies no
\* description to a connection, sends no OFFER or ANSWER, and leaves a newer
\* connection created for the same peer id open and as it was.
C29_StaleContinuationIsInert ==
    [][\A t \in tasks, ok \in BOOLEAN :
          (TornDown(t) /\ Settles(t, ok)) =>
             /\ meshSent' = << >>
             /\ \A i \in PcIds : pcs[i].state = "open" =>
                   \E k \in PcIds : pcs'[k] = pcs[i]
             /\ KeepsCurrent(t.peer)]_vars

\* onconnectionstatechange has just run for a connection that failed
Failed == meshEvent'.kind = "failed"

\* C30: when the state of a peer connection becomes failed, the teardown of
\* a roster removal runs for its peer id: that connection is closed, the
\* map holds no connection under the peer id and the remote stream of the
\* peer is discarded.
C30_FailureRunsTeardown ==
    [][Failed =>
          /\ \A i \in PcIds : pcs'[i].state # "failed"
          /\ peerConnections'[meshEvent'.peer] = NoPc
          /\ meshEvent'.peer \notin remoteStreams']_vars

Registered(d) == deviceSockets[d] # NoConn /\ deviceSockets[d] \in open

\* C32: a device is present in the registry only while it is registered:
\* in every reachable state each present device id has a binding to a live
\* connection.
C32_PresentOnlyWhileRegistered ==
    \A d \in ServerDeviceIds : MapHas(presentDevices, d) => Registered(d)

\* C35: no device id is bound to a connection that has disconnected, and
\* whenever deviceSockets maps d to connection c, socketDevices maps c to d.
C35_BindingMapsAgree ==
    \A d \in ServerDeviceIds :
       deviceSockets[d] # NoConn =>
          /\ deviceSockets[d] \in open
          /\ socketDevices[deviceSockets[d]] = d

\* the step is a message or a disconnect of the connection bound to d, or
\* the expiry of the timer of d
OwnStep(d) ==
    \/ /\ lastEvent'.kind \in { "register", "motion_detected", "motion_stopped",
                                "disconnect" }
       /\ deviceSockets[d] # NoConn
       /\ lastEvent'.sock = deviceSockets[d]
    \/ lastEvent'.kind = "expire" /\ lastEvent'.deviceId = d

\* C37: the presence of device d changes only in a step of the connection
\* bound to d or at the expiry of the timer of d; a MOTION_DETECTED or
\* MOTION_STOPPED naming d on any other connection leaves the registry as
\* it was.
C37_PresenceChangesByOwnConnection ==
    [][\A d \in ServerDeviceIds :
          OwnStep(d) \/ (/\ presentDevices'[d] = presentDevices[d]
                         /\ presenceTimers'[d] = presenceTimers[d])]_vars

\* the PRESENCE_UPDATE messages of the last step
UpdatesSent ==
    { sent[i] : i \in { j \in DOMAIN sent : sent[j].type = "presence_update" } }

\* C33: every PRESENCE_UPDATE broadcast for group g carries the present set
\* of g as it is immediately after the transition that triggered it.
C33_UpdateCarriesCurrentSet ==
    \A m \in UpdatesSent :
       m.payload.presentDevices =
          GetPresentDevicesInGroup(presentDevices, m.payload.groupId)

\* a device has left the registry while another device of its group stays
\* present, and the broadcast names the one that stays
C33_Witness ==
    /\ lastEvent.kind \in { "motion_stopped", "expire", "disconnect" }
    /\ \E m \in UpdatesSent :
          /\ m.payload.presentDevices # {}
          /\ \A dev \in m.payload.presentDevices : dev.id # lastEvent.deviceId

\* the step is a REGISTER that repeats the acknowledged REGISTER before it:
\* the same connection, device id and group
RepeatedRegister ==
    /\ lastEvent.kind = "register" /\ lastEvent.ok
    /\ lastEvent'.kind = "register"
    /\ lastEvent'.sock = lastEvent.sock
    /\ lastEvent'.deviceId = lastEvent.deviceId
    /\ lastEvent'.groupId = lastEvent.groupId

\* C34: repeating the same REGISTER on the same connection leaves the
\* binding maps, the store and the presence registry as after the first
\* one, and the connection again receives REGISTER_ACK followed by the
\* presence snapshot.
C34_RegisterIsIdempotent ==
    [][RepeatedRegister =>
          /\ UNCHANGED << deviceSockets, socketDevices, dbGroups, dbDevices,
                          presentDevices, presenceTimers, timers >>
          /\ sent' = RegisterReplies(lastEvent.sock, lastEvent.deviceId,
                                     lastEvent.groupId, presentDevices)]_vars

\* what the client of device d should be looking at: the present set of the
\* group the store holds for d
CurrentView(d) ==
    [groupId |-> dbDevices[d],
     presentDevices |-> GetPresentDevicesInGroup(presentDevices, dbDevices[d])]

\* C36: for every device d bound through a REGISTER into group g, the
\* payload of the last PRESENCE_UPDATE sent to the connection bound to d is
\* the current present set of g, also after a present device has registered
\* into another group and refreshed its presence there.
C36_ViewIsCurrent ==
    \A d \in ServerDeviceIds :
       Registered(d) => lastUpdate[deviceSockets[d]] = CurrentView(d)

\* the step is a MOTION_DETECTED naming a device the store does not know
UnknownMotion ==
    /\ lastEvent'.kind = "motion_detected"
    /\ ~DeviceExists(dbDevices, lastEvent'.deviceId)

\* C38: a MOTION_DETECTED whose deviceId is unknown to the store yields
\* ERROR DEVICE_NOT_FOUND to the sender and nothing else: no presence entry
\* is created, no timer is armed and no presence change is emitted.
C38_UnknownDeviceIsRefused ==
    [][UnknownMotion =>
          /\ sent' = << ErrorMsg(lastEvent'.sock, "DEVICE_NOT_FOUND") >>
          /\ emitted' = << >>
          /\ UNCHANGED << presentDevices, presenceTimers, timers >>]_vars

\* an unknown device has been refused while another device is present with
\* its timer armed
C38_Witness ==
    /\ lastEvent.kind = "motion_detected"
    /\ ~lastEvent.ok
    /\ ~DeviceExists(dbDevices, lastEvent.deviceId)
    /\ sent = << ErrorMsg(lastEvent.sock, "DEVICE_NOT_FOUND") >>
    /\ \E e \in ServerDeviceIds :
          MapHas(presentDevices, e) /\ presenceTimers[e] # NoTimer

\* onMotionStopped is called in the step
StoppedFired == \E i \in DOMAIN motionCalls' : motionCalls'[i] = "stopped"

\* C39: onStopped is fired only while the inferrer is active, so that every
\* onStopped follows a rising-edge onDetected with no onStopped in between;
\* toggling detection off while idle fires no onStopped.
C39_StoppedOnlyWhileActive ==
    [][StoppedFired => isMotionActive]_vars

\* the heartbeat interval has called onMotionDetected in the step
HeartbeatFired == motionEvent' = "heartbeat"

\* C40: heartbeat onDetected calls occur only while the inferrer is active
\* and enabled; after onStopped has fired, by timeout or by disabling, no
\* heartbeat onDetected is fired until the next rising edge.
C40_HeartbeatOnlyWhileActive ==
    [][HeartbeatFired => (isMotionActive /\ isMotionEnabled)]_vars

=============================================================================
